---- MODULE Spec2Model ----
(***************************************************************************)
(* Model of hathor-wallet-lib:                                             *)
(*   - src/src/wallet/sendTransaction.js : the SendTransaction object, an  *)
(*     event emitter that submits a transaction to the tx mining service,  *)
(*     polls the job status and retries on timeout;                        *)
(*   - src/src/tokens.js : the token registry and the two-phase            *)
(*     createToken operation.                                              *)
(* The mining service, the timers and transaction.sendTransaction are the  *)
(* environment: their answers are drawn from small sets.                   *)
(***************************************************************************)
EXTENDS Integers, Sequences, FiniteSets, TLC

(***************************************************************************)
(* Bounds of the model.                                                    *)
(***************************************************************************)
\* largest value of options.maxTxMiningRetries that is explored (0..MaxRetries)
MaxRetries == 3
\* number of getJobStatus requests one object may issue
MaxPolls == 3
\* number of createToken calls
MaxCreates == 2

(***************************************************************************)
(* Values.                                                                 *)
(***************************************************************************)
\* SendTransaction objects; Spec runs object 1 only
Objects == {1, 2}
\* the flows of control of one object, one per start() call
Threads == {1, 2}
\* job ids handed out by the mining service
JobIds == {"job-a", "job-b"}
\* expected_total_time values of the service, in seconds; -1 means no miners
EstTimes == {-1, 0, 6}
\* response.tx of a 'done' status: the nonce is a hex string (digits listed)
Txs == { [nonce |-> <<1, 15>>, parents |-> "p1", timestamp |-> 100, weight |-> 17],
         [nonce |-> <<10>>, parents |-> "p2", timestamp |-> 200, weight |-> 18] }

\* a JavaScript null in a string-valued field
Null == "null"
\* an optional value: <<>> is null, <<v>> is the value v
None == <<>>
Some(v) == <<v>>

\* MIN_POLLING_INTERVAL of ../constants, in seconds
MIN_POLLING_INTERVAL == 1

noMinersError == "There are no miners to resolve the proof of work of this transaction."
unexpectedError == "An unexpected error happened. Please try to send your transaction again."
timeoutError == "Timeout solving transaction's proof-of-work."

Max(a, b) == IF a >= b THEN a ELSE b

Last(s) == s[Len(s)]

\* parseInt(hex, 16) on a string of hex digits
RECURSIVE parseInt16(_)
parseInt16(digits) ==
  IF digits = <<>> THEN 0
  ELSE 16 * parseInt16(SubSeq(digits, 1, Len(digits) - 1)) + digits[Len(digits)]

\* mutant of pollTime: the estimation is not held up to the minimum
pollTime_noFloor(est) == est * 500

\* poll_time of handleJobStatus, in milliseconds
pollTime(est) == Max(est * 500, MIN_POLLING_INTERVAL * 1000)

(***************************************************************************)
(* State.                                                                  *)
(***************************************************************************)
VARIABLES
  estimation,            \* this.estimation, None or Some(seconds)
  jobID,                 \* this.jobID, Null or a job id
  countTxMiningAttempts, \* this.countTxMiningAttempts
  maxTxMiningRetries,    \* this.maxTxMiningRetries
  promise,               \* this.promise: [state, value]
  emitted,               \* history: the notifications emitted, in order
  pc,                    \* per flow of control: idle, submitting, timer, status, stopped
  timerDelay,            \* per flow of control: the delay of the timer last set
  starts,                \* history: number of start() calls
  requests,              \* history: the requests sent to the mining service
  timers,                \* history: the delays of the timers set
  inputs                 \* history: the answers of the service

mvars == <<estimation, jobID, countTxMiningAttempts, maxTxMiningRetries, promise,
           emitted, pc, timerDelay, starts, requests, timers, inputs>>

VARIABLES
  storageTokens,         \* storage item 'wallet:tokens': None or Some(list of token configs)
  ctPhase,               \* createToken: idle, creating, minting, resolved, rejected
  ctArgs,                \* createToken: the arguments of the running call
  ctPromise,             \* createToken: the promise it returned: [state, value]
  ctSent,                \* history: the sendTransaction calls of the running call
  ctOutcomes,            \* history: the outcomes of these calls, in order
  ctStorage0,            \* history: storageTokens when the running call began
  ctCalls                \* history: number of createToken calls

tvars == <<storageTokens, ctPhase, ctArgs, ctPromise, ctSent, ctOutcomes, ctStorage0, ctCalls>>

VARIABLES
  walletData,            \* wallet.getWalletData(): None or Some([keys, historyTransactions])
  meltArgs,              \* the arguments of the last getMeltInputs / meltTokens call, or None
  meltSelection,         \* what getMeltInputs returned to it: None (null) or Some([inputs, inputsAmount])
  meltReturn,            \* what meltTokens returned: none (not called), null, promise
  meltSent,              \* history: the transaction.sendTransaction calls of meltTokens
  addressRequests,       \* history: the wallet.getAddressToUse calls of meltTokens
  config,                \* a configuration string: None (missing) or Some(sequence of characters)
  configToken,           \* the token getConfigurationString was last called with, or None
  configEdited,          \* the string was edited after getConfigurationString built it
  configParsed,          \* the last getTokenFromConfigurationString result: <<>>, <<"null">>, <<token>>
  indexArgs,             \* the arguments of the last getTokenIndex call, or None
  indexResult            \* its result, or None

uvars == <<walletData, meltArgs, meltSelection, meltReturn, meltSent, addressRequests>>
cvars == <<config, configToken, configEdited, configParsed>>
ivars == <<indexArgs, indexResult>>

VARIABLES
  codecArgs,             \* the number, width and signedness of the last codec test, or None
  codecBytes,            \* what intToBytes / signedIntToBytes returned to it: [ok, bytes]
  codecValue,            \* what unpackToInt gave back for these bytes, or None
  stack,                 \* the stack pushDataToStack works on
  stackBefore,           \* history: the stack before the last push
  pushedData,            \* history: the buffer of the last push, or None
  registryOp,            \* history: the last registry call [op, uid, name, symbol], or None
  registryBefore         \* history: getTokens() before that call

kvars == <<codecArgs, codecBytes, codecValue>>
pvars == <<stack, stackBefore, pushedData>>
rvars == <<registryOp, registryBefore>>

vars == <<mvars, tvars, uvars, cvars, ivars, kvars, pvars, rvars>>

(***************************************************************************)
(* The promise of the constructor and the listeners it registers.          *)
(***************************************************************************)
\* resolve / reject of a promise: only the first call settles it
Settle(p, st, v) ==
  IF p.state = "pending" THEN [state |-> st, value |-> Some(v)] ELSE p

\* mutant of Listeners: no listener of 'unexpected-error'
Listeners_noUnexpected(p, event, data) ==
  IF event = "success" THEN Settle(p, "resolved", data)
  ELSE IF event = "send-error" THEN Settle(p, "rejected", data)
  ELSE p

\* the listeners registered in the constructor
Listeners(p, event, data) ==
  IF event = "success" THEN Settle(p, "resolved", data)
  ELSE IF event \in {"send-error", "unexpected-error"} THEN Settle(p, "rejected", data)
  ELSE p

\* this.emit(event, data) applied to the pair <<emitted, promise>>
Emit(ep, event, data) ==
  <<Append(ep[1], [event |-> event, data |-> data]), Listeners(ep[2], event, data)>>

InitMining ==
  /\ estimation = [o \in Objects |-> None]
  /\ jobID = [o \in Objects |-> Null]
  /\ countTxMiningAttempts = [o \in Objects |-> 0]
  /\ maxTxMiningRetries \in {[o \in Objects |-> IF o = 1 THEN m ELSE 3] : m \in 0..MaxRetries}
  /\ promise = [o \in Objects |-> [state |-> "pending", value |-> None]]
  /\ emitted = [o \in Objects |-> <<>>]
  /\ pc = [o \in Objects |-> [t \in Threads |-> "idle"]]
  /\ timerDelay = [o \in Objects |-> [t \in Threads |-> 0]]
  /\ starts = [o \in Objects |-> 0]
  /\ requests = [o \in Objects |-> <<>>]
  /\ timers = [o \in Objects |-> <<>>]
  /\ inputs = [o \in Objects |-> <<>>]

(***************************************************************************)
(* Answers of the mining service.                                          *)
(***************************************************************************)
\* response of submitJob
SubmitResponses == [expected_total_time : EstTimes, job_id : JobIds]

\* response of getJobStatus; fields the handler does not read are left out
StatusResponses ==
  { [status |-> "done", expected_total_time |-> 0, tx |-> x] : x \in Txs }
  \cup { [status |-> "timeout", expected_total_time |-> 0, tx |-> None] }
  \cup { [status |-> "mining", expected_total_time |-> e, tx |-> None] : e \in EstTimes }

(***************************************************************************)
(* Conditions of the handlers.                                             *)
(***************************************************************************)
\* mutant of noMiners: -1 is not recognised
noMiners_never(response) == response.expected_total_time < -1

\* response.expected_total_time === -1
noMiners(response) == response.expected_total_time = -1

\* mutant of mayRetry: the comparison is <=
mayRetry_inclusive(o) == countTxMiningAttempts[o] <= maxTxMiningRetries[o]

\* this.countTxMiningAttempts < this.maxTxMiningRetries
mayRetry(o) == countTxMiningAttempts[o] < maxTxMiningRetries[o]

\* the payload of 'success'
successData(response) ==
  [nonce |-> parseInt16(response.tx.nonce), parents |-> response.tx.parents,
   timestamp |-> response.tx.timestamp, weight |-> response.tx.weight]

(***************************************************************************)
(* Steps of one object.  Each sets every variable of the object.           *)
(***************************************************************************)
\* the emitter state of object o as the pair Emit works on
EP(o) == <<emitted[o], promise[o]>>

SetEmitter(o, ep) ==
  /\ emitted' = [emitted EXCEPT ![o] = ep[1]]
  /\ promise' = [promise EXCEPT ![o] = ep[2]]

\* mutant of submitJob: the attempts of all objects are counted together
submitJob_sharedCounter(o, t) ==
  /\ countTxMiningAttempts' = [p \in Objects |-> countTxMiningAttempts[p] + 1]
  /\ requests' = [requests EXCEPT ![o] = Append(@, [api |-> "submitJob", jobID |-> Null])]
  /\ pc' = [pc EXCEPT ![o][t] = "submitting"]

\* submitJob(): count the attempt and send the request
submitJob(o, t) ==
  /\ countTxMiningAttempts' = [countTxMiningAttempts EXCEPT ![o] = @ + 1]
  /\ requests' = [requests EXCEPT ![o] = Append(@, [api |-> "submitJob", jobID |-> Null])]
  /\ pc' = [pc EXCEPT ![o][t] = "submitting"]

\* handleJobStatus(): set the timer of the next status query from estimation est
handleJobStatus(o, t, est) ==
  /\ timerDelay' = [timerDelay EXCEPT ![o][t] = pollTime(est)]
  /\ timers' = [timers EXCEPT ![o] = Append(@, pollTime(est))]
  /\ pc' = [pc EXCEPT ![o][t] = "timer"]

\* start(): a new flow of control begins with submitJob()
Start(o) ==
  /\ starts[o] + 1 \in Threads
  /\ submitJob(o, starts[o] + 1)
  /\ starts' = [starts EXCEPT ![o] = @ + 1]
  /\ UNCHANGED <<estimation, jobID, maxTxMiningRetries, promise, emitted,
                 timerDelay, timers, inputs>>

\* the flow of control ends: nothing is scheduled and no request is sent
stop(o, t) == pc' = [pc EXCEPT ![o][t] = "stopped"]

\* mutant of submitNoMiners: the else is missing, the accepted branch runs as well
submitNoMiners_fallThrough(o, t, response) ==
  /\ estimation' = [estimation EXCEPT ![o] = Some(response.expected_total_time)]
  /\ jobID' = [jobID EXCEPT ![o] = response.job_id]
  /\ SetEmitter(o, Emit(Emit(EP(o), "send-error", noMinersError), "job-submitted",
       [estimation |-> response.expected_total_time, jobID |-> response.job_id]))
  /\ handleJobStatus(o, t, response.expected_total_time)

\* submitJob callback, expected_total_time === -1: there are no miners online
submitNoMiners(o, t, response) ==
  /\ SetEmitter(o, Emit(EP(o), "send-error", noMinersError))
  /\ stop(o, t)
  /\ UNCHANGED <<estimation, jobID, timerDelay, timers>>

\* mutant of submitAccepted: 'job-submitted' is not emitted
submitAccepted_silent(o, t, response) ==
  /\ estimation' = [estimation EXCEPT ![o] = Some(response.expected_total_time)]
  /\ jobID' = [jobID EXCEPT ![o] = response.job_id]
  /\ UNCHANGED <<emitted, promise>>
  /\ handleJobStatus(o, t, response.expected_total_time)

\* submitJob callback, the job was accepted
submitAccepted(o, t, response) ==
  /\ estimation' = [estimation EXCEPT ![o] = Some(response.expected_total_time)]
  /\ jobID' = [jobID EXCEPT ![o] = response.job_id]
  /\ SetEmitter(o, Emit(EP(o), "job-submitted",
       [estimation |-> response.expected_total_time, jobID |-> response.job_id]))
  /\ handleJobStatus(o, t, response.expected_total_time)

\* the callback of txMiningApi.submitJob
SubmitJobResponse(o, t, response) ==
  /\ pc[o][t] = "submitting"
  /\ inputs' = [inputs EXCEPT ![o] =
       Append(@, [to |-> "submitJob", ok |-> TRUE, response |-> response])]
  /\ IF noMiners(response)
       THEN submitNoMiners(o, t, response)
       ELSE submitAccepted(o, t, response)
  /\ UNCHANGED <<countTxMiningAttempts, maxTxMiningRetries, starts, requests>>

\* the catch of txMiningApi.submitJob: the request failed
SubmitJobFailure(o, t) ==
  /\ pc[o][t] = "submitting"
  /\ inputs' = [inputs EXCEPT ![o] =
       Append(@, [to |-> "submitJob", ok |-> FALSE, response |-> None])]
  /\ SetEmitter(o, Emit(EP(o), "unexpected-error", unexpectedError))
  /\ stop(o, t)
  /\ UNCHANGED <<estimation, jobID, countTxMiningAttempts, maxTxMiningRetries,
                 timerDelay, starts, requests, timers>>

\* the getJobStatus requests object o has sent
polls(o) == SelectSeq(requests[o], LAMBDA r : r.api = "getJobStatus")

\* the timer of handleJobStatus fires: getJobStatus(this.jobID) is sent
pollTimerFires(o, t) ==
  /\ pc[o][t] = "timer"
  /\ requests' = [requests EXCEPT ![o] = Append(@, [api |-> "getJobStatus", jobID |-> jobID[o]])]
  /\ pc' = [pc EXCEPT ![o][t] = "status"]
  /\ UNCHANGED <<estimation, jobID, countTxMiningAttempts, maxTxMiningRetries, promise,
                 emitted, timerDelay, starts, timers, inputs>>

\* the timer fires while the object has sent fewer than MaxPolls queries
PollTimer(o, t) == Len(polls(o)) < MaxPolls /\ pollTimerFires(o, t)

\* mutant of statusTimeout: nothing is emitted when the retries are used up
statusTimeout_silent(o, t, response) ==
  IF mayRetry(o)
    THEN /\ submitJob(o, t)
         /\ UNCHANGED <<estimation, promise, emitted, timerDelay, timers>>
    ELSE /\ stop(o, t)
         /\ UNCHANGED <<estimation, promise, emitted, countTxMiningAttempts, timerDelay, requests, timers>>

\* getJobStatus callback, status 'done'
statusDone(o, t, response) ==
  /\ SetEmitter(o, Emit(Emit(EP(o), "job-done", [jobID |-> jobID[o]]),
                        "success", successData(response)))
  /\ stop(o, t)
  /\ UNCHANGED <<estimation, countTxMiningAttempts, timerDelay, requests, timers>>

\* getJobStatus callback, status 'timeout'
statusTimeout(o, t, response) ==
  IF mayRetry(o)
    THEN /\ submitJob(o, t)
         /\ UNCHANGED <<estimation, promise, emitted, timerDelay, timers>>
    ELSE /\ SetEmitter(o, Emit(EP(o), "send-error", timeoutError))
         /\ stop(o, t)
         /\ UNCHANGED <<estimation, countTxMiningAttempts, timerDelay, requests, timers>>

\* mutant of statusOther: this.estimation is not updated
statusOther_staleEstimation(o, t, response) ==
  IF noMiners(response)
    THEN /\ SetEmitter(o, Emit(EP(o), "send-error", noMinersError))
         /\ stop(o, t)
         /\ UNCHANGED <<estimation, countTxMiningAttempts, timerDelay, requests, timers>>
    ELSE /\ UNCHANGED estimation
         /\ SetEmitter(o, Emit(EP(o), "estimation-updated",
              [jobID |-> jobID[o], estimation |-> response.expected_total_time]))
         /\ handleJobStatus(o, t, estimation[o][1])
         /\ UNCHANGED <<countTxMiningAttempts, requests>>

\* getJobStatus callback, any other status
statusOther(o, t, response) ==
  IF noMiners(response)
    THEN /\ SetEmitter(o, Emit(EP(o), "send-error", noMinersError))
         /\ stop(o, t)
         /\ UNCHANGED <<estimation, countTxMiningAttempts, timerDelay, requests, timers>>
    ELSE /\ estimation' = [estimation EXCEPT ![o] = Some(response.expected_total_time)]
         /\ SetEmitter(o, Emit(EP(o), "estimation-updated",
              [jobID |-> jobID[o], estimation |-> response.expected_total_time]))
         /\ handleJobStatus(o, t, response.expected_total_time)
         /\ UNCHANGED <<countTxMiningAttempts, requests>>

\* the callback of txMiningApi.getJobStatus
JobStatusResponse(o, t, response) ==
  /\ pc[o][t] = "status"
  /\ inputs' = [inputs EXCEPT ![o] =
       Append(@, [to |-> "getJobStatus", ok |-> TRUE, response |-> response])]
  /\ IF response.status = "done" THEN statusDone(o, t, response)
     ELSE IF response.status = "timeout" THEN statusTimeout(o, t, response)
     ELSE statusOther(o, t, response)
  /\ UNCHANGED <<jobID, maxTxMiningRetries, starts>>

\* mutant of JobStatusFailure: the failure is reported as 'send-error'
JobStatusFailure_sendError(o, t) ==
  /\ pc[o][t] = "status"
  /\ inputs' = [inputs EXCEPT ![o] =
       Append(@, [to |-> "getJobStatus", ok |-> FALSE, response |-> None])]
  /\ SetEmitter(o, Emit(EP(o), "send-error", unexpectedError))
  /\ stop(o, t)
  /\ UNCHANGED <<estimation, jobID, countTxMiningAttempts, maxTxMiningRetries,
                 timerDelay, starts, requests, timers>>

\* the catch of txMiningApi.getJobStatus: the request failed
JobStatusFailure(o, t) ==
  /\ pc[o][t] = "status"
  /\ inputs' = [inputs EXCEPT ![o] =
       Append(@, [to |-> "getJobStatus", ok |-> FALSE, response |-> None])]
  /\ SetEmitter(o, Emit(EP(o), "unexpected-error", unexpectedError))
  /\ stop(o, t)
  /\ UNCHANGED <<estimation, jobID, countTxMiningAttempts, maxTxMiningRetries,
                 timerDelay, starts, requests, timers>>

(***************************************************************************)
(* tokens.js: the token registry and createToken.                          *)
(***************************************************************************)
\* the constants of ./constants that tokens.js imports
TOKEN_CREATION_MASK == 1
TOKEN_MINT_MASK == 2
TOKEN_MELT_MASK == 4
AUTHORITY_TOKEN_DATA == 129
\* a uid is a tuple: <<"00">> is the native token, <<"sha256", ...>> a derived uid
HATHOR_TOKEN_CONFIG == [name |-> "Hathor", symbol |-> "HTR", uid |-> <<"00">>]

\* arguments of createToken
TokenNames == {"Coin", "My:Coin"}
TokenSymbols == {"CN", "MC"}
Addresses == {"addr-1"}
MintAmounts == {100}
Pins == {"1234"}
SpentInputs == { [tx_id |-> "aa", index |-> 0, token |-> <<"00">>],
                 [tx_id |-> "bb", index |-> 1, token |-> <<"00">>] }
ChangeOutputs == { [address |-> "addr-1", value |-> 50, tokenData |-> 0] }
\* hashes of the transactions the backend accepts
TxHashes == {"h1", "h2"}
\* what transaction.sendTransaction rejects with: error objects
SendErrors == { [name |-> "Error", message |-> "Invalid transaction"],
                [name |-> "Error", message |-> "Request failed"] }

\* the bitwise or of two naturals
RECURSIVE BitOr(_, _)
BitOr(a, b) ==
  IF a = 0 THEN b
  ELSE IF b = 0 THEN a
  ELSE 2 * BitOr(a \div 2, b \div 2) + (IF a % 2 = 1 \/ b % 2 = 1 THEN 1 ELSE 0)

\* getTokenUID: sha256 over the tx id and the index byte; the hash is kept symbolic
getTokenUID(txID, index) == <<"sha256", txID, index % 256>>

\* the token list held by a value of the storage item: the native token alone when absent
tokensOf(item) == IF item = None THEN <<HATHOR_TOKEN_CONFIG>> ELSE item[1]

\* getTokens()
getTokens == tokensOf(storageTokens)

\* saveToStorage(newTokens)
saveToStorage(newTokens) == storageTokens' = Some(newTokens)

\* mutant of addToken: the new list is not saved
addToken_notSaved(uid, name, symbol) == UNCHANGED storageTokens

\* addToken(uid, name, symbol)
addToken(uid, name, symbol) ==
  saveToStorage(Append(getTokens, [name |-> name, symbol |-> symbol, uid |-> uid]))

\* the transaction data createToken sends first
creationTxData(input, output, address) ==
  [inputs |-> <<input>>,
   outputs |-> << [address |-> address,
                   value |-> BitOr(BitOr(TOKEN_CREATION_MASK, TOKEN_MINT_MASK), TOKEN_MELT_MASK),
                   tokenData |-> AUTHORITY_TOKEN_DATA],
                  output >>,
   tokens |-> <<getTokenUID(input.tx_id, input.index)>>]

\* the transaction data of mintTokens
mintTxData(txID, index, addressSpent, token, address, amount, createAnotherMint, createMelt) ==
  [inputs |-> << [tx_id |-> txID, index |-> index, token |-> token, address |-> addressSpent] >>,
   outputs |-> << [address |-> address, value |-> amount, tokenData |-> 1] >>
               \o (IF createAnotherMint
                     THEN << [address |-> address, value |-> TOKEN_MINT_MASK,
                              tokenData |-> AUTHORITY_TOKEN_DATA] >>
                     ELSE <<>>)
               \o (IF createMelt
                     THEN << [address |-> address, value |-> TOKEN_MELT_MASK,
                              tokenData |-> AUTHORITY_TOKEN_DATA] >>
                     ELSE <<>>),
   tokens |-> <<token>>]

\* transaction.sendTransaction(data, pin) is called by operation op
sendTransaction(op, data, pin) ==
  ctSent' = Append(ctSent, [op |-> op, data |-> data, pin |-> pin])

InitTokens ==
  /\ storageTokens = None
  /\ ctPhase = "idle"
  /\ ctArgs = None
  /\ ctPromise = [state |-> "pending", value |-> None]
  /\ ctSent = <<>>
  /\ ctOutcomes = <<>>
  /\ ctStorage0 = None
  /\ ctCalls = 0

\* createToken(input, output, address, name, symbol, mintAmount, pin)
CreateToken(input, output, address, name, symbol, mintAmount, pin) ==
  /\ ctPhase \in {"idle", "resolved", "rejected"}
  /\ ctCalls < MaxCreates
  /\ ctCalls' = ctCalls + 1
  /\ ctArgs' = Some([input |-> input, output |-> output, address |-> address, name |-> name,
                     symbol |-> symbol, mintAmount |-> mintAmount, pin |-> pin])
  /\ ctPromise' = [state |-> "pending", value |-> None]
  /\ ctSent' = <<[op |-> "createToken", data |-> creationTxData(input, output, address), pin |-> pin]>>
  /\ ctOutcomes' = <<>>
  /\ ctStorage0' = storageTokens
  /\ ctPhase' = "creating"
  /\ UNCHANGED storageTokens

\* mutant of mintAfterCreation: the promise is resolved without waiting for the mint
mintAfterCreation_resolvesEarly(response) ==
  LET a == ctArgs[1]
      uid == response.tx.tokens[1] IN
    /\ addToken(uid, a.name, a.symbol)
    /\ sendTransaction("mintTokens",
         mintTxData(response.tx.hash, 0, a.address, uid, a.address, a.mintAmount, TRUE, TRUE), a.pin)
    /\ ctPromise' = [state |-> "resolved",
                     value |-> Some([uid |-> uid, name |-> a.name, symbol |-> a.symbol])]

\* the fulfilment handler of the creation: register the token, then mint
mintAfterCreation(response) ==
  LET a == ctArgs[1]
      uid == response.tx.tokens[1] IN
    /\ addToken(uid, a.name, a.symbol)
    /\ sendTransaction("mintTokens",
         mintTxData(response.tx.hash, 0, a.address, uid, a.address, a.mintAmount, TRUE, TRUE), a.pin)
    /\ UNCHANGED ctPromise

\* the creation transaction was accepted: response.tx is the transaction sent, with its hash
CreationSucceeds(hash) ==
  /\ ctPhase = "creating"
  /\ LET response == [success |-> TRUE, tx |-> [hash |-> hash, tokens |-> ctSent[1].data.tokens]] IN
       /\ ctOutcomes' = Append(ctOutcomes, [ok |-> TRUE, value |-> response])
       /\ mintAfterCreation(response)
  /\ ctPhase' = "minting"
  /\ UNCHANGED <<ctArgs, ctStorage0, ctCalls>>

\* the rejection handler of the creation: reject(e.message)
creationRejected(e) ==
  /\ ctPromise' = Settle(ctPromise, "rejected", e.message)
  /\ UNCHANGED ctSent

\* the creation transaction failed with error e
CreationFails(e) ==
  /\ ctPhase = "creating"
  /\ ctOutcomes' = Append(ctOutcomes, [ok |-> FALSE, value |-> e])
  /\ creationRejected(e)
  /\ ctPhase' = "rejected"
  /\ UNCHANGED <<storageTokens, ctArgs, ctStorage0, ctCalls>>

\* the mint transaction was accepted: resolve({uid, name, symbol})
MintSucceeds(hash) ==
  /\ ctPhase = "minting"
  /\ ctOutcomes' = Append(ctOutcomes,
       [ok |-> TRUE, value |-> [success |-> TRUE, tx |-> [hash |-> hash, tokens |-> Last(ctSent).data.tokens]]])
  /\ ctPromise' = Settle(ctPromise, "resolved",
       [uid |-> ctOutcomes[1].value.tx.tokens[1], name |-> ctArgs[1].name, symbol |-> ctArgs[1].symbol])
  /\ ctPhase' = "resolved"
  /\ UNCHANGED <<storageTokens, ctArgs, ctSent, ctStorage0, ctCalls>>

\* the mint transaction failed: reject(message)
MintFails(message) ==
  /\ ctPhase = "minting"
  /\ ctOutcomes' = Append(ctOutcomes, [ok |-> FALSE, value |-> message])
  /\ ctPromise' = Settle(ctPromise, "rejected", message)
  /\ ctPhase' = "rejected"
  /\ UNCHANGED <<storageTokens, ctArgs, ctSent, ctStorage0, ctCalls>>

(***************************************************************************)
(* tokens.js: meltTokens and getMeltInputs.                                *)
(***************************************************************************)
\* bound: the number of outputs in the whole wallet history
MaxOutputs == 2

\* the token that is melted, and another token of the same wallet
MeltToken == getTokenUID("aa", 0)
OtherToken == getTokenUID("bb", 1)
MeltAmounts == {0, 50}
MyAddress == "mine"
TheirAddress == "theirs"
WalletKeys == {MyAddress}
\* an output of the wallet history that holds an amount of a token
valueOutput(value, token, spent_by, address) ==
  [value |-> value, token |-> token, token_data |-> 1, spent_by |-> spent_by,
   decoded |-> [address |-> address]]
\* a melt authority output of a token
authorityOutput(token, address) ==
  [value |-> TOKEN_MELT_MASK, token |-> token, token_data |-> AUTHORITY_TOKEN_DATA,
   spent_by |-> Null, decoded |-> [address |-> address]]
TxOutputs ==
  { valueOutput(30, MeltToken, Null, MyAddress),
    valueOutput(50, MeltToken, Null, MyAddress),
    valueOutput(30, MeltToken, "tx-spender", MyAddress),
    valueOutput(30, OtherToken, Null, MyAddress),
    valueOutput(30, MeltToken, Null, TheirAddress),
    authorityOutput(MeltToken, MyAddress) }

\* a transaction of the history: its id is its position in the history
Transactions(position, n) ==
  UNION { { [tx_id |-> <<"tx", position>>, is_voided |-> voided, outputs |-> outputs] :
              voided \in BOOLEAN, outputs \in [1..m -> TxOutputs] } : m \in 1..n }

\* the number of outputs of a history
RECURSIVE outputCount(_)
outputCount(txs) == IF txs = <<>> THEN 0 ELSE Len(Head(txs).outputs) + outputCount(Tail(txs))

\* wallet.isAuthorityOutput(txout): the authority bit of token_data is set
isAuthorityOutput(txout) == (txout.token_data \div 128) % 2 = 1

\* wallet.isAddressMine(address, data)
isAddressMine(address, data) == address \in data.keys

\* wallet.filterHistoryTransactions(historyTransactions, token): the transactions
\* that involve the token, in the order of the history
filterHistoryTransactions(historyTransactions, token) ==
  SelectSeq(historyTransactions, LAMBDA tx : \E i \in DOMAIN tx.outputs : tx.outputs[i].token = token)

\* wallet.getAddressToUse()
getAddressToUse == "change"

\* the iteration order of getMeltInputs: the transactions in order, and the
\* outputs of each by index (tx.outputs.entries() counts from 0)
RECURSIVE outputEntries(_)
outputEntries(txs) ==
  IF txs = <<>> THEN <<>>
  ELSE [i \in DOMAIN Head(txs).outputs |->
          [tx |-> Head(txs), index |-> i - 1, txout |-> Head(txs).outputs[i]]]
       \o outputEntries(Tail(txs))

\* the condition under which getMeltInputs takes an output as an input
usable_spent(txout, token, data) ==
  txout.token = token /\ isAddressMine(txout.decoded.address, data)
usable(txout, token, data) ==
  txout.spent_by = Null /\ txout.token = token /\ isAddressMine(txout.decoded.address, data)

\* inputsAmount += txout.value
accumulate_last(inputsAmount, txout) == txout.value
accumulate(inputsAmount, txout) == inputsAmount + txout.value

\* the test that ends the selection
reached_strict(inputsAmount, amount) == inputsAmount > amount
reached(inputsAmount, amount) == inputsAmount >= amount

\* the loops of getMeltInputs from the entry es on, with the inputs chosen so far
RECURSIVE meltLoop(_, _, _, _, _, _)
meltLoop(es, chosen, inputsAmount, amount, token, data) ==
  IF es = <<>> THEN None
  ELSE LET e == Head(es) IN
       IF \/ e.tx.is_voided
          \/ isAuthorityOutput(e.txout)
          \/ ~usable(e.txout, token, data)
       THEN meltLoop(Tail(es), chosen, inputsAmount, amount, token, data)
       ELSE LET taken == Append(chosen, [tx_id |-> e.tx.tx_id, index |-> e.index, token |-> token,
                                         address |-> e.txout.decoded.address])
                total == accumulate(inputsAmount, e.txout)
            IN  IF reached(total, amount)
                THEN Some([inputs |-> taken, inputsAmount |-> total])
                ELSE meltLoop(Tail(es), taken, total, amount, token, data)

\* getMeltInputs(amount, token): None is null
getMeltInputs(amount, token) ==
  IF walletData = None THEN None
  ELSE LET data == walletData[1]
           filteredHistory == filterHistoryTransactions(data.historyTransactions, token)
       IN  meltLoop(outputEntries(filteredHistory), <<>>, 0, amount, token, data)

\* the wallet.getAddressToUse calls of one meltTokens call
meltAddressCalls_eager(result, amount, createAnotherMelt) ==
  (IF result # None /\ result[1].inputsAmount > amount THEN 1 ELSE 0) + (IF createAnotherMelt THEN 1 ELSE 0)
meltAddressCalls(result, amount, createAnotherMelt) ==
  IF result = None THEN 0
  ELSE (IF result[1].inputsAmount > amount THEN 1 ELSE 0) + (IF createAnotherMelt THEN 1 ELSE 0)

\* the change output of a melt, if any
meltChange_always(result, amount) ==
  <<[address |-> getAddressToUse, value |-> result.inputsAmount - amount, tokenData |-> 1]>>
meltChange(result, amount) ==
  IF result.inputsAmount > amount
  THEN <<[address |-> getAddressToUse, value |-> result.inputsAmount - amount, tokenData |-> 1]>>
  ELSE <<>>

\* the transaction data meltTokens builds from a selection
meltTxData(txId, index, addressSpent, token, amount, result, createAnotherMelt) ==
  LET authorityInput == [tx_id |-> txId, index |-> index, token |-> token, address |-> addressSpent]
  IN  [inputs |-> <<authorityInput>> \o result.inputs,
       outputs |-> meltChange(result, amount) \o
                   (IF createAnotherMelt
                    THEN <<[address |-> getAddressToUse, value |-> TOKEN_MELT_MASK,
                            tokenData |-> AUTHORITY_TOKEN_DATA]>>
                    ELSE <<>>),
       tokens |-> <<token>>]

InitMelt ==
  /\ meltArgs = None
  /\ meltSelection = None
  /\ meltReturn = "none"
  /\ meltSent = <<>>
  /\ addressRequests = 0

\* the wallet history receives a transaction; the calls below are made on
\* the history as it stands after that
ReceiveTransaction ==
  /\ walletData # None
  /\ meltArgs = None
  /\ LET data == walletData[1]
         room == MaxOutputs - outputCount(data.historyTransactions)
     IN  \E tx \in Transactions(Len(data.historyTransactions) + 1, room) :
           walletData' = Some([data EXCEPT !.historyTransactions = Append(@, tx)])
  /\ UNCHANGED <<meltArgs, meltSelection, meltReturn, meltSent, addressRequests>>

\* a call of getMeltInputs by itself
GetMeltInputs(amount, token) ==
  /\ meltArgs' = Some([amount |-> amount, token |-> token, createAnotherMelt |-> FALSE])
  /\ meltSelection' = getMeltInputs(amount, token)
  /\ meltReturn' = "none"
  /\ meltSent' = <<>>
  /\ addressRequests' = 0
  /\ UNCHANGED walletData

\* meltTokens(txId, index, addressSpent, token, amount, pin, createAnotherMelt)
MeltTokens(txId, index, addressSpent, token, amount, pin, createAnotherMelt) ==
  LET result == getMeltInputs(amount, token) IN
  /\ meltArgs' = Some([amount |-> amount, token |-> token, createAnotherMelt |-> createAnotherMelt])
  /\ meltSelection' = result
  /\ addressRequests' = meltAddressCalls(result, amount, createAnotherMelt)
  /\ IF result = None
     THEN meltReturn' = "null" /\ meltSent' = <<>>
     ELSE /\ meltReturn' = "promise"
          /\ meltSent' = <<[data |-> meltTxData(txId, index, addressSpent, token, amount, result[1],
                                                 createAnotherMelt),
                            pin |-> pin]>>
  /\ UNCHANGED walletData

(***************************************************************************)
(* tokens.js: configuration strings.  A string is a sequence of characters.*)
(***************************************************************************)
\* bound: the length of a token name
MaxNameLen == 2

HexDigits == <<"0", "1", "2", "3", "4", "5", "6", "7", "8", "9", "a", "b", "c", "d", "e", "f">>
\* the characters of the strings, in the order of their codes
Chars == HexDigits \o <<":", "[", "]", "H", "T">>
charCode(c) == CHOOSE i \in DOMAIN Chars : Chars[i] = c
\* Buffer.from(string): the bytes of a string
bytesOf(string) == [i \in DOMAIN string |-> charCode(string[i])]

\* a hash of a byte sequence to a digest of 4 bytes or more
RECURSIVE mix(_, _)
mix(bytes, h) == IF bytes = <<>> THEN h ELSE mix(Tail(bytes), (h * 33 + Head(bytes)) % 65521)
digest(bytes) ==
  LET h == mix(bytes, 5381)
  IN  <<h \div 256, h % 256, (h * 7) % 256, (h * 13) % 256, (h * 29) % 256>>

\* transaction.getChecksum(bytes): the first 4 bytes of the hash of the hash
getChecksum(bytes) == SubSeq(digest(digest(bytes)), 1, 4)

\* buffer.toString('hex')
RECURSIVE toHex(_)
toHex(bytes) ==
  IF bytes = <<>> THEN <<>>
  ELSE <<HexDigits[(Head(bytes) \div 16) + 1], HexDigits[(Head(bytes) % 16) + 1]>> \o toHex(Tail(bytes))

\* array.join(separator)
RECURSIVE join(_, _)
join(fields, separator) ==
  IF fields = <<>> THEN <<>>
  ELSE IF Len(fields) = 1 THEN fields[1]
  ELSE fields[1] \o <<separator>> \o join(Tail(fields), separator)

\* string.split(separator): the fields of a string, the fields found so far
\* and the one being read given
RECURSIVE splitFrom(_, _, _, _)
splitFrom(string, separator, found, field) ==
  IF string = <<>> THEN Append(found, field)
  ELSE IF Head(string) = separator
       THEN splitFrom(Tail(string), separator, Append(found, field), <<>>)
       ELSE splitFrom(Tail(string), separator, found, Append(field, Head(string)))
split(string, separator) == splitFrom(string, separator, <<>>, <<>>)

\* string.slice(1, -1)
slice1(string) == SubSeq(string, 2, Len(string) - 1)

\* the arguments of getConfigurationString
ConfigUids == {<<"0", "a">>, <<"0", "b">>}
ConfigSymbols == {<<"H">>, <<"T", "T">>}
ConfigNames == UNION {[1..n -> {"T", ":", "]"}] : n \in 0..MaxNameLen}

\* getConfigurationString(uid, name, symbol)
getConfigurationString(uid, name, symbol) ==
  LET partialConfig == name \o <<":">> \o symbol \o <<":">> \o uid
      checksum == getChecksum(bytesOf(partialConfig))
  IN  <<"[">> \o partialConfig \o <<":">> \o toHex(checksum) \o <<"]">>

\* the test that rejects a string without the outer brackets; cfg is None or Some(string)
unbracketed(cfg) ==
  \/ cfg = None
  \/ cfg[1] = <<>>
  \/ cfg[1][1] # "["
  \/ cfg[1][Len(cfg[1])] # "]"

\* the test that accepts the checksum field of a string
checksumMatches_any(correctChecksum, checksum) == TRUE
checksumMatches(correctChecksum, checksum) == toHex(correctChecksum) = checksum

\* the name of the token: the fields that are left, joined again
tokenName_first(configArr) == IF configArr = <<>> THEN <<>> ELSE configArr[1]
tokenName(configArr) == join(configArr, ":")

\* getTokenFromConfigurationString(config): None is null
getTokenFromConfigurationString(cfg) ==
  IF unbracketed(cfg) THEN None
  ELSE LET configArr == split(slice1(cfg[1]), ":") IN
       IF Len(configArr) < 4 THEN None
       ELSE LET checksum == configArr[Len(configArr)]
                withoutChecksum == SubSeq(configArr, 1, Len(configArr) - 1)
                configWithoutChecksum == join(withoutChecksum, ":")
                correctChecksum == getChecksum(bytesOf(configWithoutChecksum))
            IN  IF ~checksumMatches(correctChecksum, checksum) THEN None
                ELSE Some([uid |-> withoutChecksum[Len(withoutChecksum)],
                           symbol |-> withoutChecksum[Len(withoutChecksum) - 1],
                           name |-> tokenName(SubSeq(withoutChecksum, 1, Len(withoutChecksum) - 2))])

InitConfig ==
  /\ config = None
  /\ configToken = None
  /\ configEdited = FALSE
  /\ configParsed = [called |-> FALSE, result |-> None]

\* a configuration string is made for a token
GetConfigurationString(uid, name, symbol) ==
  /\ config' = Some(getConfigurationString(uid, name, symbol))
  /\ configToken' = Some([uid |-> uid, name |-> name, symbol |-> symbol])
  /\ configEdited' = FALSE
  /\ configParsed' = [called |-> FALSE, result |-> None]

\* strings a user may type by hand
TypedStrings ==
  { <<>>, <<"[">>, <<"[", "]">>, <<"T", ":", "H", ":", "0", ":", "0">>,
    <<"[", "T", ":", "H", ":", "0", "a", "]">>,
    <<"[", "T", ":", "H", ":", "0", "a", ":", "0", "0", "]">>,
    <<"[", ":", ":", ":", "]">> }
TypeString(string) ==
  /\ config' = Some(string)
  /\ configToken' = None
  /\ configEdited' = TRUE
  /\ configParsed' = [called |-> FALSE, result |-> None]

\* the string changes on its way: one character is replaced or the first or
\* last character is lost
EditString ==
  /\ config # None
  /\ ~configEdited
  /\ \/ \E i \in DOMAIN config[1], c \in {"0", ":", "]"} :
          config' = Some([config[1] EXCEPT ![i] = c])
     \/ config[1] # <<>> /\ config' = Some(Tail(config[1]))
     \/ config[1] # <<>> /\ config' = Some(SubSeq(config[1], 1, Len(config[1]) - 1))
  /\ configEdited' = TRUE
  /\ configParsed' = [called |-> FALSE, result |-> None]
  /\ UNCHANGED configToken

\* getTokenFromConfigurationString is called with the string, or with none
ParseConfiguration ==
  /\ configParsed' = [called |-> TRUE, result |-> getTokenFromConfigurationString(config)]
  /\ UNCHANGED <<config, configToken, configEdited>>

(***************************************************************************)
(* tokens.js: getTokenIndex.                                               *)
(***************************************************************************)
\* bound: the length of the token list given to getTokenIndex
MaxTokens == 3

\* the uids of the token lists, and a uid that may be in no list
ListedUids == {HATHOR_TOKEN_CONFIG.uid, getTokenUID("aa", 0), getTokenUID("bb", 1)}
AskedUids == ListedUids \cup {getTokenUID("cc", 2)}
TokenLists == UNION {[1..n -> {[uid |-> uid] : uid \in ListedUids}] : n \in 0..MaxTokens}

\* array.findIndex((token) => token.uid === uid): the index from 0 of the first
\* token with that uid, or -1
findIndex(array, uid) ==
  IF \E i \in DOMAIN array : array[i].uid = uid
  THEN (CHOOSE i \in DOMAIN array : array[i].uid = uid /\ \A j \in 1..(i - 1) : array[j].uid # uid) - 1
  ELSE -1

\* filterTokens(tokens, toRemove)
filterTokens(tokens, toRemove) == SelectSeq(tokens, LAMBDA token : token.uid # toRemove.uid)

\* getTokenIndex(tokens, uid)
getTokenIndex(tokens, uid) ==
  IF uid = HATHOR_TOKEN_CONFIG.uid THEN 0
  ELSE LET tokensWithoutHathor == filterTokens(tokens, HATHOR_TOKEN_CONFIG)
           myIndex == findIndex(tokensWithoutHathor, uid)
       IN  myIndex + 1

InitIndex ==
  /\ indexArgs = None
  /\ indexResult = None

GetTokenIndex(tokens, uid) ==
  /\ indexArgs' = Some([tokens |-> tokens, uid |-> uid])
  /\ indexResult' = Some(getTokenIndex(tokens, uid))

(***************************************************************************)
(* utils/helpers and utils/buffer: the integer codec.  A number is a sign  *)
(* and its decimal digits, most significant first, so that no value of 8   *)
(* bytes is out of reach; a buffer is a sequence of bytes.                 *)
(***************************************************************************)
\* bound: the integers from -MaxSmall to MaxSmall are all encoded
MaxSmall == 300

\* the decimal digits of a natural number
RECURSIVE digitsOf(_)
digitsOf(k) == IF k < 10 THEN <<k>> ELSE Append(digitsOf(k \div 10), k % 10)

\* digits without leading zeros; zero is <<0>>
RECURSIVE normal(_)
normal(digits) ==
  IF digits = <<>> THEN <<0>>
  ELSE IF Head(digits) = 0 /\ Len(digits) > 1 THEN normal(Tail(digits))
  ELSE digits

\* the number of an integer k, and of a sign and a digit sequence
number(neg, digits) == [neg |-> neg, digits |-> digits]
Num(k) == IF k < 0 THEN number(TRUE, digitsOf(-k)) ELSE number(FALSE, digitsOf(k))

\* digits divided by 256: quotient digits and remainder, by long division
RECURSIVE divide256(_, _, _)
divide256(digits, quotient, remainder) ==
  IF digits = <<>> THEN [q |-> normal(quotient), r |-> remainder]
  ELSE LET current == remainder * 10 + Head(digits)
       IN  divide256(Tail(digits), Append(quotient, current \div 256), current % 256)

\* the magnitude in width bytes, big-endian; fits is FALSE when something is left over
RECURSIVE magnitudeBytes(_, _)
magnitudeBytes(digits, width) ==
  IF width = 0 THEN [fits |-> digits = <<0>>, bytes |-> <<>>]
  ELSE LET d == divide256(digits, <<>>, 0)
           high == magnitudeBytes(d.q, width - 1)
       IN  [fits |-> high.fits, bytes |-> Append(high.bytes, d.r)]

\* the two's complement of a buffer: every byte inverted, plus one
RECURSIVE addOne(_)
addOne(bytes) ==
  IF bytes = <<>> THEN <<>>
  ELSE IF Last(bytes) = 255 THEN Append(addOne(SubSeq(bytes, 1, Len(bytes) - 1)), 0)
  ELSE Append(SubSeq(bytes, 1, Len(bytes) - 1), Last(bytes) + 1)
complement(bytes) == addOne([i \in DOMAIN bytes |-> 255 - bytes[i]])

\* a RangeError
RangeError == [ok |-> FALSE, bytes |-> <<>>]

\* mutant of intToBytes: the bytes are written least significant first
intToBytes_littleEndian(n, width) ==
  LET m == magnitudeBytes(n.digits, width) IN
  IF n.neg \/ ~m.fits THEN RangeError
  ELSE [ok |-> TRUE, bytes |-> [i \in DOMAIN m.bytes |-> m.bytes[Len(m.bytes) + 1 - i]]]

\* helpers.intToBytes(value, width): unsigned, big-endian
intToBytes(n, width) ==
  LET m == magnitudeBytes(n.digits, width) IN
  IF n.neg \/ ~m.fits THEN RangeError
  ELSE [ok |-> TRUE, bytes |-> m.bytes]

\* helpers.signedIntToBytes(value, width): two's complement, big-endian
signedIntToBytes(n, width) ==
  LET m == magnitudeBytes(n.digits, width) IN
  IF ~m.fits THEN RangeError
  ELSE IF ~n.neg THEN (IF m.bytes[1] >= 128 THEN RangeError ELSE [ok |-> TRUE, bytes |-> m.bytes])
  ELSE IF complement(m.bytes)[1] < 128 THEN RangeError
  ELSE [ok |-> TRUE, bytes |-> complement(m.bytes)]

\* digits times 256 plus carry
RECURSIVE times256(_, _)
times256(digits, carry) ==
  IF digits = <<>> THEN (IF carry = 0 THEN <<>> ELSE digitsOf(carry))
  ELSE LET current == Last(digits) * 256 + carry
       IN  Append(times256(SubSeq(digits, 1, Len(digits) - 1), current \div 10), current % 10)

\* the magnitude a big-endian buffer holds
RECURSIVE magnitudeOf(_)
magnitudeOf(bytes) ==
  IF bytes = <<>> THEN <<0>>
  ELSE normal(times256(magnitudeOf(SubSeq(bytes, 1, Len(bytes) - 1)), Last(bytes)))

\* buffer.unpackToInt(width, signed, buffer): the value and the bytes consumed
unpackToInt(width, signed, buf) ==
  LET bytes == SubSeq(buf, 1, width) IN
  IF signed /\ bytes[1] >= 128
  THEN <<number(TRUE, magnitudeOf(complement(bytes))), width>>
  ELSE <<number(FALSE, magnitudeOf(bytes)), width>>

\* the numbers and widths of the tests, and numbers at the ends of the ranges
SmallNumbers == {Num(k) : k \in (0 - MaxSmall)..MaxSmall}
LargeMagnitudes ==
  { <<3, 2, 7, 6, 7>>, <<3, 2, 7, 6, 8>>, <<6, 5, 5, 3, 5>>, <<6, 5, 5, 3, 6>>, <<7, 0, 0, 0, 0>>,
    <<2, 1, 4, 7, 4, 8, 3, 6, 4, 7>>, <<2, 1, 4, 7, 4, 8, 3, 6, 4, 8>>,
    <<4, 2, 9, 4, 9, 6, 7, 2, 9, 5>>, <<4, 2, 9, 4, 9, 6, 7, 2, 9, 6>>,
    <<8, 5, 8, 9, 9, 3, 4, 5, 9, 2>>,
    <<9, 0, 0, 7, 1, 9, 9, 2, 5, 4, 7, 4, 0, 9, 9, 2>>,
    <<4, 6, 1, 1, 6, 8, 6, 0, 1, 8, 4, 2, 7, 3, 8, 7, 9, 0, 4>>,
    <<9, 2, 2, 3, 3, 7, 2, 0, 3, 6, 8, 5, 4, 7, 7, 5, 8, 0, 8>> }
LargeNumbers == {number(neg, digits) : neg \in BOOLEAN, digits \in LargeMagnitudes}
UnsignedWidths == {1, 2, 4}
SignedWidths == {1, 2, 4, 8}

InitCodec ==
  /\ codecArgs = None
  /\ codecBytes = RangeError
  /\ codecValue = None

\* test 'Unsigned int to bytes': intToBytes, then unpackToInt(width, false, buf)[0]
UnsignedIntToBytes(n, width) ==
  LET buf == intToBytes(n, width) IN
  /\ codecArgs' = Some([n |-> n, width |-> width, signed |-> FALSE])
  /\ codecBytes' = buf
  /\ codecValue' = IF buf.ok THEN Some(unpackToInt(width, FALSE, buf.bytes)[1]) ELSE None

\* test 'Signed int to bytes': signedIntToBytes, then unpackToInt(width, true, buf)[0]
SignedIntToBytes(n, width) ==
  LET buf == signedIntToBytes(n, width) IN
  /\ codecArgs' = Some([n |-> n, width |-> width, signed |-> TRUE])
  /\ codecBytes' = buf
  /\ codecValue' = IF buf.ok THEN Some(unpackToInt(width, TRUE, buf.bytes)[1]) ELSE None

(***************************************************************************)
(* utils/helpers: pushDataToStack.  A stack is a sequence of buffers.      *)
(***************************************************************************)
\* bound: a push is made on a stack of fewer entries than this
MaxStack == 4

\* the opcode of ../opcodes, a buffer of one byte
OP_PUSHDATA1 == <<76>>

\* the buffers that are pushed: of the lengths of the tests and of the lengths
\* where the encoding changes, filled with one byte
DataLengths == {0, 1, 5, 74, 75, 76, 100, 254, 255}
DataBuffers == {[i \in 1..length |-> fill] : length \in DataLengths, fill \in {0, 76}}

\* mutant of pushDataToStack: a buffer of 75 bytes gets the opcode as well
pushDataToStack_strict(entries, data) ==
  LET length == intToBytes(Num(Len(data)), 1).bytes IN
  IF Len(data) < 75
  THEN entries \o <<length, data>>
  ELSE entries \o <<OP_PUSHDATA1, length, data>>

\* helpers.pushDataToStack(stack, data): the stack after the call
pushDataToStack(entries, data) ==
  LET length == intToBytes(Num(Len(data)), 1).bytes IN
  IF Len(data) <= 75
  THEN entries \o <<length, data>>
  ELSE entries \o <<OP_PUSHDATA1, length, data>>

InitPush ==
  /\ stack = <<>>
  /\ stackBefore = <<>>
  /\ pushedData = None

\* test 'Push data': a buffer is pushed to a stack
PushData(data) ==
  /\ Len(stack) < MaxStack
  /\ stackBefore' = stack
  /\ pushedData' = Some(data)
  /\ stack' = pushDataToStack(stack, data)

(***************************************************************************)
(* tokens.js: the token registry: addToken after validation, editToken and *)
(* unregisterToken.                                                        *)
(***************************************************************************)
\* the uids, names and symbols of the registry calls
RegistryUids == {HATHOR_TOKEN_CONFIG.uid, getTokenUID("aa", 0), getTokenUID("bb", 1)}
RegistryLabels == {[name |-> "Coin", symbol |-> "CN"], [name |-> "My:Coin", symbol |-> "MC"]}

\* tokenExists(uid): the first token with that uid, or None for null
tokenExists(uid) ==
  LET tokens == getTokens IN
  IF \E i \in DOMAIN tokens : tokens[i].uid = uid
  THEN Some(tokens[CHOOSE i \in DOMAIN tokens :
                     tokens[i].uid = uid /\ \A j \in 1..(i - 1) : tokens[j].uid # uid])
  ELSE None

\* validateTokenToAddByUid(uid)
validateTokenToAddByUid(uid) == [success |-> tokenExists(uid) = None]

\* mutant of editToken: the entries of uid are not filtered out
editToken_append(uid, name, symbol) ==
  saveToStorage(getTokens \o <<[uid |-> uid, name |-> name, symbol |-> symbol]>>)

\* editToken(uid, name, symbol)
editToken(uid, name, symbol) ==
  LET tokens == getTokens
      filteredTokens == SelectSeq(tokens, LAMBDA token : token.uid # uid)
      newConfig == [uid |-> uid, name |-> name, symbol |-> symbol]
  IN  saveToStorage(filteredTokens \o <<newConfig>>)

\* unregisterToken(uid)
unregisterToken(uid) ==
  LET tokens == getTokens
      filteredTokens == SelectSeq(tokens, LAMBDA token : token.uid # uid)
  IN  saveToStorage(filteredTokens)

InitRegistry ==
  /\ registryOp = None
  /\ registryBefore = <<>>

\* what a registry call leaves alone, and what it records
registryCall(op, uid, name, symbol) ==
  /\ registryOp' = Some([op |-> op, uid |-> uid, name |-> name, symbol |-> symbol])
  /\ registryBefore' = getTokens
  /\ UNCHANGED <<ctPhase, ctArgs, ctPromise, ctSent, ctOutcomes, ctStorage0, ctCalls>>

\* a token is registered: addToken is called once validateTokenToAddByUid succeeded
RegisterToken(uid, name, symbol) ==
  /\ validateTokenToAddByUid(uid).success
  /\ addToken(uid, name, symbol)
  /\ registryCall("addToken", uid, name, symbol)

EditToken(uid, name, symbol) ==
  /\ editToken(uid, name, symbol)
  /\ registryCall("editToken", uid, name, symbol)

UnregisterToken(uid) ==
  /\ unregisterToken(uid)
  /\ registryCall("unregisterToken", uid, "", "")

(***************************************************************************)
(* Specifications.                                                         *)
(***************************************************************************)
Init ==
  /\ InitMining
  /\ InitTokens
  /\ walletData = None
  /\ InitMelt
  /\ InitConfig
  /\ InitIndex
  /\ InitCodec
  /\ InitPush
  /\ InitRegistry

\* start() of an object that was not started yet
FirstStart(o) == starts[o] = 0 /\ Start(o) /\ UNCHANGED <<tvars, uvars, cvars, ivars, kvars, pvars, rvars>>

\* start() called again on a started object
Restart(o) == starts[o] > 0 /\ Start(o) /\ UNCHANGED <<tvars, uvars, cvars, ivars, kvars, pvars, rvars>>

SubmitResponds ==
  /\ \E t \in Threads, r \in SubmitResponses : SubmitJobResponse(1, t, r)
  /\ UNCHANGED <<tvars, uvars, cvars, ivars, kvars, pvars, rvars>>
SubmitFails == (\E t \in Threads : SubmitJobFailure(1, t)) /\ UNCHANGED <<tvars, uvars, cvars, ivars, kvars, pvars, rvars>>
TimerFires == (\E t \in Threads : PollTimer(1, t)) /\ UNCHANGED <<tvars, uvars, cvars, ivars, kvars, pvars, rvars>>
StatusResponds ==
  /\ \E t \in Threads, r \in StatusResponses : JobStatusResponse(1, t, r)
  /\ UNCHANGED <<tvars, uvars, cvars, ivars, kvars, pvars, rvars>>
StatusFails == (\E t \in Threads : JobStatusFailure(1, t)) /\ UNCHANGED <<tvars, uvars, cvars, ivars, kvars, pvars, rvars>>

\* one object, started once
Next ==
  \/ FirstStart(1)
  \/ SubmitResponds
  \/ SubmitFails
  \/ TimerFires
  \/ StatusResponds
  \/ StatusFails

Spec == Init /\ [][Next]_vars

\* one object, on which start() may be called again while it runs; the service
\* hands out one job id and one estimation
RestartSubmitResponds ==
  /\ \E t \in Threads, r \in {x \in SubmitResponses : x.job_id = "job-a" /\ x.expected_total_time # 0} :
       SubmitJobResponse(1, t, r)
  /\ UNCHANGED <<tvars, uvars, cvars, ivars, kvars, pvars, rvars>>
RestartStatusResponds ==
  /\ \E t \in Threads,
        r \in {x \in StatusResponses : x.expected_total_time # 6 /\ (x.status = "done" => x.tx.weight = 17)} :
       JobStatusResponse(1, t, r)
  /\ UNCHANGED <<tvars, uvars, cvars, ivars, kvars, pvars, rvars>>

NextRestart ==
  \/ FirstStart(1)
  \/ Restart(1)
  \/ RestartSubmitResponds
  \/ SubmitFails
  \/ TimerFires
  \/ RestartStatusResponds
  \/ StatusFails

SpecRestart == Init /\ [][NextRestart]_vars

\* createToken calls, one after the other, and the outcomes of their transactions
CreateTokenCalled ==
  /\ \E input \in SpentInputs, output \in ChangeOutputs, address \in Addresses, name \in TokenNames,
        symbol \in TokenSymbols, mintAmount \in MintAmounts, pin \in Pins :
       CreateToken(input, output, address, name, symbol, mintAmount, pin)
  /\ UNCHANGED <<mvars, uvars, cvars, ivars, kvars, pvars, rvars>>
CreationAccepted == (\E hash \in TxHashes : CreationSucceeds(hash)) /\ UNCHANGED <<mvars, uvars, cvars, ivars, kvars, pvars, rvars>>
CreationRefused == (\E e \in SendErrors : CreationFails(e)) /\ UNCHANGED <<mvars, uvars, cvars, ivars, kvars, pvars, rvars>>
MintAccepted == (\E hash \in TxHashes : MintSucceeds(hash)) /\ UNCHANGED <<mvars, uvars, cvars, ivars, kvars, pvars, rvars>>
MintRefused == (\E e \in SendErrors : MintFails(e)) /\ UNCHANGED <<mvars, uvars, cvars, ivars, kvars, pvars, rvars>>

NextTokens ==
  \/ CreateTokenCalled
  \/ CreationAccepted
  \/ CreationRefused
  \/ MintAccepted
  \/ MintRefused

\* the SendTransaction objects stay as constructed with the default options
InitTokensOnly == Init /\ maxTxMiningRetries[1] = 3

SpecTokens == InitTokensOnly /\ [][NextTokens]_vars

\* getMeltInputs and meltTokens calls on a wallet with any history
GetMeltInputsCalled ==
  /\ \E amount \in MeltAmounts, token \in {MeltToken, OtherToken} : GetMeltInputs(amount, token)
  /\ UNCHANGED <<mvars, tvars, cvars, ivars, kvars, pvars, rvars>>
MeltTokensCalled ==
  /\ \E amount \in MeltAmounts, createAnotherMelt \in BOOLEAN :
       MeltTokens(<<"tx", 0>>, 0, MyAddress, MeltToken, amount, "123456", createAnotherMelt)
  /\ UNCHANGED <<mvars, tvars, cvars, ivars, kvars, pvars, rvars>>

HistoryGrows == ReceiveTransaction /\ UNCHANGED <<mvars, tvars, cvars, ivars, kvars, pvars, rvars>>

NextMelt ==
  \/ HistoryGrows
  \/ GetMeltInputsCalled
  \/ MeltTokensCalled

InitMeltCalls ==
  /\ InitMining /\ maxTxMiningRetries[1] = 3
  /\ InitTokens
  /\ walletData \in {None, Some([keys |-> WalletKeys, historyTransactions |-> <<>>])}
  /\ InitMelt
  /\ InitConfig
  /\ InitIndex
  /\ InitCodec
  /\ InitPush
  /\ InitRegistry

SpecMelt == InitMeltCalls /\ [][NextMelt]_vars

\* configuration strings are made, typed, changed and parsed
ConfigurationMade ==
  /\ \E uid \in ConfigUids, name \in ConfigNames, symbol \in ConfigSymbols :
       GetConfigurationString(uid, name, symbol)
  /\ UNCHANGED <<mvars, tvars, uvars, ivars, kvars, pvars, rvars>>
ConfigurationTyped == (\E string \in TypedStrings : TypeString(string)) /\ UNCHANGED <<mvars, tvars, uvars, ivars, kvars, pvars, rvars>>
ConfigurationEdited == EditString /\ UNCHANGED <<mvars, tvars, uvars, ivars, kvars, pvars, rvars>>
ConfigurationParsed == ParseConfiguration /\ UNCHANGED <<mvars, tvars, uvars, ivars, kvars, pvars, rvars>>

NextConfig ==
  \/ ConfigurationMade
  \/ ConfigurationTyped
  \/ ConfigurationEdited
  \/ ConfigurationParsed

SpecConfig == InitTokensOnly /\ [][NextConfig]_vars

\* getTokenIndex is called with any token list and any uid
TokenIndexAsked ==
  /\ \E tokens \in TokenLists, uid \in AskedUids : GetTokenIndex(tokens, uid)
  /\ UNCHANGED <<mvars, tvars, uvars, cvars, kvars, pvars, rvars>>

NextIndex == TokenIndexAsked

SpecIndex == InitTokensOnly /\ [][NextIndex]_vars

\* two objects, each started once, whose requests are answered in any order;
\* the service answers with one estimation per kind of answer
ConcurrentSubmitResponses == {x \in SubmitResponses : x.expected_total_time # 0}
ConcurrentStatusResponses ==
  {x \in StatusResponses : x.expected_total_time # 6 /\ (x.status = "done" => x.tx.weight = 17)}

AnyStart == (\E o \in Objects : FirstStart(o))
AnySubmitResponds ==
  /\ \E o \in Objects, t \in Threads, r \in ConcurrentSubmitResponses : SubmitJobResponse(o, t, r)
  /\ UNCHANGED <<tvars, uvars, cvars, ivars, kvars, pvars, rvars>>
AnySubmitFails ==
  /\ \E o \in Objects, t \in Threads : SubmitJobFailure(o, t)
  /\ UNCHANGED <<tvars, uvars, cvars, ivars, kvars, pvars, rvars>>
AnyTimerFires ==
  /\ \E o \in Objects, t \in Threads : PollTimer(o, t)
  /\ UNCHANGED <<tvars, uvars, cvars, ivars, kvars, pvars, rvars>>
AnyStatusResponds ==
  /\ \E o \in Objects, t \in Threads, r \in ConcurrentStatusResponses : JobStatusResponse(o, t, r)
  /\ UNCHANGED <<tvars, uvars, cvars, ivars, kvars, pvars, rvars>>
AnyStatusFails ==
  /\ \E o \in Objects, t \in Threads : JobStatusFailure(o, t)
  /\ UNCHANGED <<tvars, uvars, cvars, ivars, kvars, pvars, rvars>>

NextConcurrent ==
  \/ AnyStart
  \/ AnySubmitResponds
  \/ AnySubmitFails
  \/ AnyTimerFires
  \/ AnyStatusResponds
  \/ AnyStatusFails

\* one object is constructed with maxTxMiningRetries 1, the other with the default
InitConcurrent == Init /\ maxTxMiningRetries[1] = 1

SpecConcurrent == InitConcurrent /\ [][NextConcurrent]_vars

\* one case of the tests of the integer codec, with a number and a width
UnsignedIntToBytesTest ==
  /\ codecArgs = None
  /\ \E n \in SmallNumbers \cup LargeNumbers, width \in UnsignedWidths : UnsignedIntToBytes(n, width)
  /\ UNCHANGED <<mvars, tvars, uvars, cvars, ivars, pvars, rvars>>
SignedIntToBytesTest ==
  /\ codecArgs = None
  /\ \E n \in SmallNumbers \cup LargeNumbers, width \in SignedWidths : SignedIntToBytes(n, width)
  /\ UNCHANGED <<mvars, tvars, uvars, cvars, ivars, pvars, rvars>>

NextCodec ==
  \/ UnsignedIntToBytesTest
  \/ SignedIntToBytesTest

SpecCodec == InitTokensOnly /\ [][NextCodec]_vars

\* buffers are pushed to a stack, one after the other
PushDataTest ==
  /\ \E data \in DataBuffers : PushData(data)
  /\ UNCHANGED <<mvars, tvars, uvars, cvars, ivars, kvars, rvars>>

NextPush == PushDataTest

SpecPush == InitTokensOnly /\ [][NextPush]_vars

\* registry calls in any order; a token is added only after its validation
TokenRegistered ==
  /\ \E uid \in RegistryUids, label \in RegistryLabels : RegisterToken(uid, label.name, label.symbol)
  /\ UNCHANGED <<mvars, uvars, cvars, ivars, kvars, pvars>>
TokenEdited ==
  /\ \E uid \in RegistryUids, label \in RegistryLabels : EditToken(uid, label.name, label.symbol)
  /\ UNCHANGED <<mvars, uvars, cvars, ivars, kvars, pvars>>
TokenUnregistered ==
  /\ \E uid \in RegistryUids : UnregisterToken(uid)
  /\ UNCHANGED <<mvars, uvars, cvars, ivars, kvars, pvars>>

NextRegistry ==
  \/ TokenRegistered
  \/ TokenEdited
  \/ TokenUnregistered

SpecRegistry == InitTokensOnly /\ [][NextRegistry]_vars

\* bound: the answers with another status than 'done' and 'timeout' that the
\* service gives to one object before it answers 'done' or 'timeout'
MaxOthers == 1

\* one object, started once, on which nothing is cut short: every timer may fire;
\* the service does not answer with another status for ever
LiveTimerFires ==
  /\ \E t \in Threads : pollTimerFires(1, t)
  /\ UNCHANGED <<tvars, uvars, cvars, ivars, kvars, pvars, rvars>>
LiveStatusResponds ==
  /\ \E t \in Threads, r \in StatusResponses :
       /\ (r.status \notin {"done", "timeout"} /\ r.expected_total_time # -1) =>
            Len(SelectSeq(inputs[1], LAMBDA x : /\ x.to = "getJobStatus" /\ x.ok
                                                /\ x.response.status \notin {"done", "timeout"}))
              < MaxOthers
       /\ JobStatusResponse(1, t, r)
  /\ UNCHANGED <<tvars, uvars, cvars, ivars, kvars, pvars, rvars>>

NextLive ==
  \/ FirstStart(1)
  \/ SubmitResponds
  \/ SubmitFails
  \/ LiveTimerFires
  \/ LiveStatusResponds
  \/ StatusFails

\* every request is answered or fails, and every timer fires
SpecLive ==
  /\ Init
  /\ [][NextLive]_vars
  /\ WF_vars(SubmitResponds \/ SubmitFails)
  /\ WF_vars(LiveTimerFires)
  /\ WF_vars(LiveStatusResponds \/ StatusFails)

(***************************************************************************)
(* Vocabulary of the properties of SendTransaction (object 1).             *)
(***************************************************************************)
TerminalEvents == {"success", "send-error", "unexpected-error"}

\* the names of the notifications of object o, in order
events(o) == [i \in 1..Len(emitted[o]) |-> emitted[o][i].event]

\* the positions of the terminal notifications of object o
terminalAt(o) == {i \in 1..Len(emitted[o]) : emitted[o][i].event \in TerminalEvents}

\* number of entries of sequence s that satisfy Test
Count(s, Test(_)) == Len(SelectSeq(s, Test))

\* the submitJob requests object o has sent
submissions(o) == SelectSeq(requests[o], LAMBDA r : r.api = "submitJob")

\* no flow of control of object o has a request or a timer pending
quiescent(o) == \A t \in Threads : pc[o][t] \in {"idle", "stopped"}

\* the last answer of the service to object o
lastInput(o) == Last(inputs[o])

\* C1: with a single start(), at most one of 'success', 'send-error' and
\* 'unexpected-error' is emitted, it is the last notification of the object,
\* and nothing is pending after it: no further notification can follow.
C1_OneTerminal ==
  /\ Cardinality(terminalAt(1)) <= 1
  /\ \A i \in terminalAt(1) : i = Len(emitted[1]) /\ quiescent(1)

\* a run that was resubmitted after a timeout and has emitted its terminal notification
C1_Witness ==
  /\ countTxMiningAttempts[1] >= 2
  /\ Len(emitted[1]) >= 3
  /\ terminalAt(1) = {Len(emitted[1])}

\* C2 as stated: the notifications are 'job-submitted', then 'estimation-updated'
\* any number of times, then one of 'job-done' / 'send-error' / 'unexpected-error'
\* ('success' follows 'job-done').
C2_StrictOrder ==
  LET ev == SelectSeq(events(1), LAMBDA e : e # "success") IN
    ev # <<>> =>
      /\ ev[1] = "job-submitted"
      /\ \A i \in 2..Len(ev) :
           \/ ev[i] = "estimation-updated"
           \/ i = Len(ev) /\ ev[i] \in {"job-done", "send-error", "unexpected-error"}

\* C2 amended: the notifications come in rounds, one per accepted submitJob, each
\* 'job-submitted' then 'estimation-updated' any number of times; 'estimation-updated'
\* and 'job-done' never come before a 'job-submitted'; 'job-done' is directly followed
\* by 'success', 'send-error' and 'unexpected-error' are last, at most one of the three
\* is emitted, and a stopped object has emitted one.  A 'send-error' or an
\* 'unexpected-error' may be the first notification, and 'job-submitted' may follow
\* 'estimation-updated'.
C2_RoundOrder ==
  LET ev == events(1)
      n == Len(ev) IN
    /\ \A i \in 1..n :
         /\ ev[i] \in {"estimation-updated", "job-done"} =>
              i > 1 /\ ev[1] = "job-submitted" /\ ev[i-1] \in {"job-submitted", "estimation-updated"}
         /\ ev[i] = "job-submitted" => i = 1 \/ ev[i-1] \in {"job-submitted", "estimation-updated"}
         /\ ev[i] = "job-done" => i + 1 = n /\ ev[n] = "success"
         /\ ev[i] = "success" => i > 1 /\ ev[i-1] = "job-done"
         /\ ev[i] \in TerminalEvents => i = n
    /\ Count(ev, LAMBDA e : e \in {"job-done", "send-error", "unexpected-error"}) <= 1
    /\ Count(ev, LAMBDA e : e = "job-submitted") <= countTxMiningAttempts[1]
    /\ pc[1][1] = "stopped" => n > 0 /\ ev[n] \in TerminalEvents

\* a finished run in which 'job-submitted' was emitted again after 'estimation-updated'
C2_Witness ==
  LET ev == events(1) IN
    /\ pc[1][1] = "stopped"
    /\ \E i \in 2..Len(ev) : ev[i] = "job-submitted" /\ ev[i-1] = "estimation-updated"

\* C3 as stated: the number of submitJob requests is at most maxTxMiningRetries.
C3_AttemptsAtMostMax ==
  /\ Len(submissions(1)) = countTxMiningAttempts[1]
  /\ countTxMiningAttempts[1] <= maxTxMiningRetries[1]

\* C3 amended: the number of submitJob requests is at most maxTxMiningRetries, or 1
\* when maxTxMiningRetries is below 1 (start() sends the first request whatever the
\* maximum is).
C3_AttemptsBounded ==
  /\ Len(submissions(1)) = countTxMiningAttempts[1]
  /\ countTxMiningAttempts[1] <= Max(1, maxTxMiningRetries[1])

\* the last allowed submission was sent after timeouts
C3_Witness ==
  /\ maxTxMiningRetries[1] = 3
  /\ countTxMiningAttempts[1] = 3
  /\ pc[1][1] = "submitting"

\* every submitJob of object o was accepted and every status query answered 'timeout'
onlyTimeouts(o) ==
  \A i \in 1..Len(inputs[o]) :
    /\ inputs[o][i].ok
    /\ inputs[o][i].to = "submitJob" => inputs[o][i].response.expected_total_time # -1
    /\ inputs[o][i].to = "getJobStatus" => inputs[o][i].response.status = "timeout"

\* C4: when every status query is answered 'timeout', the job is resubmitted
\* maxTxMiningRetries times (submitJob requests after the first one) and the machine
\* then ends with 'send-error' and the timeout error, without 'success' and
\* 'unexpected-error'.
C4_TimeoutResubmits ==
  (onlyTimeouts(1) /\ pc[1][1] = "stopped") =>
    /\ Len(submissions(1)) - 1 = maxTxMiningRetries[1]
    /\ Last(emitted[1]) = [event |-> "send-error", data |-> timeoutError]
    /\ \A i \in 1..Len(emitted[1]) : emitted[1][i].event \notin {"success", "unexpected-error"}

\* What the code does on such a run: submitJob is sent maxTxMiningRetries times in
\* all (once when maxTxMiningRetries is below 1), that is the job is resubmitted
\* maxTxMiningRetries - 1 times, each time by a new submitJob request that follows
\* the status query of the previous job; the machine then ends with 'send-error' and
\* the timeout error, without 'success' and 'unexpected-error'.
C4_TimeoutSubmissions ==
  (onlyTimeouts(1) /\ pc[1][1] = "stopped") =>
    /\ Len(submissions(1)) = Max(1, maxTxMiningRetries[1])
    /\ Len(polls(1)) = Len(submissions(1))
    /\ \A i \in 1..Len(requests[1]) :
         requests[1][i].api = (IF i % 2 = 1 THEN "submitJob" ELSE "getJobStatus")
    /\ Last(emitted[1]) = [event |-> "send-error", data |-> timeoutError]
    /\ \A i \in 1..Len(emitted[1]) : emitted[1][i].event \notin {"success", "unexpected-error"}

\* three timeouts in a row ended a run with maxTxMiningRetries = 3
TimeoutRun ==
  /\ onlyTimeouts(1)
  /\ pc[1][1] = "stopped"
  /\ maxTxMiningRetries[1] = 3
  /\ Len(inputs[1]) = 6

\* C5: when the first submitJob is answered with expected_total_time = -1, the
\* only notification is 'send-error' with the no-miners error, jobID and estimation
\* stay unset, no timer is set and no getJobStatus request is sent.
C5_NoMinersFirst ==
  (inputs[1] # <<>> /\ inputs[1][1].ok /\ inputs[1][1].response.expected_total_time = -1) =>
    /\ emitted[1] = <<[event |-> "send-error", data |-> noMinersError]>>
    /\ jobID[1] = Null
    /\ estimation[1] = None
    /\ timers[1] = <<>>
    /\ polls(1) = <<>>
    /\ quiescent(1)

\* the first submitJob was answered with expected_total_time = -1
C5_Witness ==
  /\ inputs[1] # <<>>
  /\ inputs[1][1].ok
  /\ inputs[1][1].response.expected_total_time = -1
  /\ Len(emitted[1]) = 1

\* C6: a failed submitJob or getJobStatus request makes the object emit
\* 'unexpected-error' with the unexpected-error message; neither 'send-error' nor
\* 'success' is emitted on that run and nothing is sent or scheduled afterwards:
\* the failure is the last answer, every request was answered and no timer is set.
C6_TransportFailure ==
  \A i \in 1..Len(inputs[1]) :
    ~inputs[1][i].ok =>
      /\ i = Len(inputs[1])
      /\ Last(emitted[1]) = [event |-> "unexpected-error", data |-> unexpectedError]
      /\ \A k \in 1..Len(emitted[1]) : emitted[1][k].event \notin {"send-error", "success"}
      /\ Len(requests[1]) = Len(inputs[1])
      /\ Last(requests[1]).api = inputs[1][i].to
      /\ quiescent(1)

\* a getJobStatus request failed after an estimation update
C6_Witness ==
  /\ inputs[1] # <<>>
  /\ ~lastInput(1).ok
  /\ lastInput(1).to = "getJobStatus"
  /\ \E k \in 1..Len(emitted[1]) : emitted[1][k].event = "estimation-updated"

\* the handler of the last answer to object o has just run: no request was sent since
justAnswered(o) == inputs[o] # <<>> /\ Len(requests[o]) = Len(inputs[o])

\* a status answer with a status other than 'done' and 'timeout'
otherStatus(x) == x.to = "getJobStatus" /\ x.ok /\ x.response.status \notin {"done", "timeout"}

\* what a status answer x with another status does, as C7 states it: estimation is
\* the answer's expected_total_time, 'estimation-updated' with jobID and that
\* estimation is the last notification, no terminal notification was emitted and
\* exactly one timer was set for the next query
estimationUpdated(o, x) ==
  /\ estimation[o] = Some(x.response.expected_total_time)
  /\ Last(emitted[o]) = [event |-> "estimation-updated",
                         data |-> [jobID |-> jobID[o], estimation |-> x.response.expected_total_time]]
  /\ terminalAt(o) = {}
  /\ pc[o][1] = "timer"
  /\ timerDelay[o][1] = pollTime(x.response.expected_total_time)
  /\ Len(timers[o]) = Len(polls(o)) + 1

\* C7 as stated: every status answer with a status other than 'done' and 'timeout'
\* updates the estimation, emits 'estimation-updated' and schedules the next query.
C7_EveryOtherStatus ==
  /\ Count(events(1), LAMBDA e : e = "estimation-updated") = Count(inputs[1], otherStatus)
  /\ (justAnswered(1) /\ otherStatus(lastInput(1))) => estimationUpdated(1, lastInput(1))

\* C7 amended: every status answer with a status other than 'done' and 'timeout'
\* and an expected_total_time other than -1 updates the estimation, emits
\* 'estimation-updated' and schedules the next query; with expected_total_time = -1
\* the object emits 'send-error' with the no-miners error and stops.
C7_OtherStatusWithMiners ==
  /\ Count(events(1), LAMBDA e : e = "estimation-updated")
       = Count(inputs[1], LAMBDA x : otherStatus(x) /\ x.response.expected_total_time # -1)
  /\ (justAnswered(1) /\ otherStatus(lastInput(1))) =>
       IF lastInput(1).response.expected_total_time = -1
         THEN /\ Last(emitted[1]) = [event |-> "send-error", data |-> noMinersError]
              /\ quiescent(1)
         ELSE estimationUpdated(1, lastInput(1))

\* a second status answer with another status, with a new estimation
C7_Witness ==
  /\ justAnswered(1)
  /\ otherStatus(lastInput(1))
  /\ lastInput(1).response.expected_total_time = 6
  /\ Count(inputs[1], otherStatus) = 2
  /\ pc[1][1] = "timer"

\* C8: the promise is pending as long as no terminal notification was emitted and
\* is settled by the first one for good: resolved with the payload of 'success',
\* rejected with the message of 'send-error' or 'unexpected-error'; notifications
\* emitted later (a second start()) do not change it.
C8_PromiseFollowsFirstTerminal ==
  IF terminalAt(1) = {}
    THEN promise[1].state = "pending" /\ promise[1].value = None
    ELSE LET first == emitted[1][CHOOSE i \in terminalAt(1) : \A k \in terminalAt(1) : i <= k] IN
           /\ promise[1].state = (IF first.event = "success" THEN "resolved" ELSE "rejected")
           /\ promise[1].value = Some(first.data)

\* a rejected promise after which 'success' was emitted
C8_Witness ==
  /\ promise[1].state = "rejected"
  /\ \E i \in terminalAt(1) : emitted[1][i].event = "success"

(***************************************************************************)
(* Properties of createToken.                                              *)
(***************************************************************************)
\* the config createToken registers and resolves with
createdConfig ==
  [name |-> ctArgs[1].name, symbol |-> ctArgs[1].symbol, uid |-> ctOutcomes[1].value.tx.tokens[1]]

\* C9: createToken sends the mint only after the creation transaction succeeded
\* (spending output 0 of that transaction); its promise is resolved, with
\* {uid, name, symbol}, only after creation and mint both succeeded; when the
\* creation fails the promise is rejected with the message of that error, no mint
\* is sent and the stored token list is what it was before the call.
C9_TwoPhase ==
  /\ \A i \in 1..Len(ctSent) :
       ctSent[i].op = "mintTokens" =>
         /\ i = 2 /\ ctSent[1].op = "createToken"
         /\ ctOutcomes # <<>> /\ ctOutcomes[1].ok
         /\ ctSent[i].data.inputs[1].tx_id = ctOutcomes[1].value.tx.hash
         /\ ctSent[i].data.inputs[1].index = 0
  /\ ctPromise.state = "resolved" =>
       /\ Len(ctOutcomes) = 2 /\ ctOutcomes[1].ok /\ ctOutcomes[2].ok
       /\ ctPromise.value = Some(createdConfig)
  /\ (ctOutcomes # <<>> /\ ~ctOutcomes[1].ok) =>
       /\ ctPromise.state = "rejected"
       /\ ctPromise.value = Some(ctOutcomes[1].value.message)
       /\ Len(ctSent) = 1
       /\ storageTokens = ctStorage0

\* the creation of a second token failed while the first one is registered
C9_Witness ==
  /\ ctCalls = 2
  /\ ctOutcomes # <<>> /\ ~ctOutcomes[1].ok
  /\ Len(tokensOf(storageTokens)) = 2

\* C10: when the creation succeeds and the mint fails, the promise is rejected with
\* the error of the mint and the new config {uid, name, symbol} stays in the stored
\* token list, appended to the list the call found.
C10_MintFailureKeepsToken ==
  (Len(ctOutcomes) = 2 /\ ctOutcomes[1].ok /\ ~ctOutcomes[2].ok) =>
    /\ ctPromise.state = "rejected"
    /\ ctPromise.value = Some(ctOutcomes[2].value)
    /\ storageTokens # None
    /\ storageTokens[1] = Append(tokensOf(ctStorage0), createdConfig)

\* the mint of a created token failed
C10_Witness ==
  /\ Len(ctOutcomes) = 2 /\ ctOutcomes[1].ok /\ ~ctOutcomes[2].ok
  /\ ctPhase = "rejected"

(***************************************************************************)
(* Vocabulary of the properties of getMeltInputs and meltTokens.           *)
(***************************************************************************)
\* the last call was meltTokens, or any of the two
meltCalled == meltReturn # "none"
selectorCalled == meltArgs # None

\* the outputs of the whole history, in history order, that the requested token
\* may be melted from
eligibleOutputs ==
  SelectSeq(outputEntries(walletData[1].historyTransactions),
            LAMBDA e : /\ ~e.tx.is_voided
                       /\ e.txout.token_data < 128
                       /\ e.txout.spent_by = Null
                       /\ e.txout.token = meltArgs[1].token
                       /\ e.txout.decoded.address \in walletData[1].keys)

\* the sum of the values of the first k of these outputs
RECURSIVE eligibleSum(_)
eligibleSum(k) == IF k = 0 THEN 0 ELSE eligibleSum(k - 1) + eligibleOutputs[k].txout.value

\* the selection is the first k eligible outputs
selectsFirst(k) ==
  /\ k \in 1..Len(eligibleOutputs)
  /\ meltSelection[1].inputs =
       [i \in 1..k |-> [tx_id |-> eligibleOutputs[i].tx.tx_id, index |-> eligibleOutputs[i].index,
                        token |-> meltArgs[1].token,
                        address |-> eligibleOutputs[i].txout.decoded.address]]
  /\ meltSelection[1].inputsAmount = eligibleSum(k)

\* the output of the history an input refers to, and the transaction it lies in
txOf(input) == walletData[1].historyTransactions[input.tx_id[2]]
outputOf(input) == txOf(input).outputs[input.index + 1]

\* the transaction meltTokens submitted, the total of the inputs it selected
\* and its change outputs
sentData == meltSent[1].data
RECURSIVE sentTotal(_)
sentTotal(k) == IF k = 1 THEN 0 ELSE sentTotal(k - 1) + outputOf(sentData.inputs[k]).value
changeOutputs == SelectSeq(sentData.outputs, LAMBDA out : out.tokenData < 128)

(***************************************************************************)
(* C11: when getMeltInputs returns null to meltTokens, meltTokens returns  *)
(* null, calls transaction.sendTransaction not at all and requests no      *)
(* address from the wallet.                                                *)
(***************************************************************************)
C11_NothingSubmitted ==
  (meltCalled /\ meltSelection = None) =>
    /\ meltReturn = "null"
    /\ meltSent = <<>>
    /\ addressRequests = 0

\* a melt with createAnotherMelt fails although the wallet holds some of the token
C11_Witness ==
  /\ meltReturn = "null"
  /\ meltArgs[1].createAnotherMelt
  /\ walletData # None
  /\ eligibleOutputs # <<>>

(***************************************************************************)
(* C12: the transaction meltTokens submits has the melt authority input    *)
(* first and the selected inputs after it; it has a change output (token   *)
(* index 1, no authority output) exactly when the selected total exceeds   *)
(* amount, of value total - amount, so that total = amount + change.       *)
(***************************************************************************)
C12_MeltTransaction ==
  meltSent # <<>> =>
    LET total == sentTotal(Len(sentData.inputs))
        change == IF changeOutputs = <<>> THEN 0 ELSE changeOutputs[1].value
    IN  /\ Len(meltSent) = 1
        /\ sentData.inputs[1] = [tx_id |-> <<"tx", 0>>, index |-> 0, token |-> MeltToken,
                                 address |-> MyAddress]
        /\ Tail(sentData.inputs) = meltSelection[1].inputs
        /\ meltSelection[1].inputsAmount = total
        /\ Len(changeOutputs) <= 1
        /\ changeOutputs # <<>> <=> total > meltArgs[1].amount
        /\ changeOutputs # <<>> => changeOutputs[1].tokenData = 1 /\ change = total - meltArgs[1].amount
        /\ total = meltArgs[1].amount + change

\* two outputs are melted, with change and a new melt authority
C12_Witness ==
  /\ meltSent # <<>>
  /\ Len(sentData.inputs) = 3
  /\ Len(sentData.outputs) = 2
  /\ changeOutputs # <<>>
  /\ meltArgs[1].amount > 0

(***************************************************************************)
(* C13: a successful getMeltInputs returns the shortest prefix of the      *)
(* eligible outputs, in history order, whose sum reaches amount.           *)
(* C13_ShortestPrefix is the claim for every amount.  The formula after it *)
(* is the claim for the amounts of at least 1, and says that for an amount *)
(* of 0 or less the first eligible output alone is returned.               *)
(***************************************************************************)
C13_ShortestPrefix ==
  (selectorCalled /\ meltSelection # None) =>
    \E k \in 1..Len(eligibleOutputs) :
      /\ selectsFirst(k)
      /\ eligibleSum(k) >= meltArgs[1].amount
      /\ eligibleSum(k - 1) < meltArgs[1].amount

C13_ShortestPrefixPositive ==
  (selectorCalled /\ meltSelection # None) =>
    IF meltArgs[1].amount >= 1
    THEN \E k \in 1..Len(eligibleOutputs) :
           /\ selectsFirst(k)
           /\ eligibleSum(k) >= meltArgs[1].amount
           /\ eligibleSum(k - 1) < meltArgs[1].amount
    ELSE selectsFirst(1)

\* the selection stops at the first of two eligible outputs
C13_Witness ==
  /\ selectorCalled /\ meltSelection # None
  /\ meltArgs[1].amount >= 1
  /\ Len(meltSelection[1].inputs) = 1
  /\ Len(eligibleOutputs) = 2

(***************************************************************************)
(* C14: every input getMeltInputs returns refers to an output of the       *)
(* requested token that is no authority output, is unspent, is owned by    *)
(* the wallet and lies in a transaction that is not voided; no output is   *)
(* returned twice.                                                         *)
(***************************************************************************)
C14_InputsEligible ==
  (selectorCalled /\ meltSelection # None) =>
    LET chosen == meltSelection[1].inputs IN
    /\ \A i \in DOMAIN chosen :
         /\ chosen[i].token = meltArgs[1].token
         /\ outputOf(chosen[i]).token = meltArgs[1].token
         /\ outputOf(chosen[i]).token_data < 128
         /\ outputOf(chosen[i]).spent_by = Null
         /\ outputOf(chosen[i]).decoded.address \in walletData[1].keys
         /\ chosen[i].address = outputOf(chosen[i]).decoded.address
         /\ ~txOf(chosen[i]).is_voided
    /\ \A i, j \in DOMAIN chosen :
         (chosen[i].tx_id = chosen[j].tx_id /\ chosen[i].index = chosen[j].index) => i = j

\* the selection passes over an output that came first in the history
C14_Witness ==
  /\ selectorCalled /\ meltSelection # None
  /\ meltArgs[1].amount >= 1
  /\ Len(outputEntries(walletData[1].historyTransactions)) = 2
  /\ Len(meltSelection[1].inputs) = 1
  /\ meltSelection[1].inputs[1].tx_id = <<"tx", 2>>

(***************************************************************************)
(* C15: with wallet data, getMeltInputs returns null exactly when the      *)
(* eligible outputs of the whole history sum to less than amount.          *)
(* C15_NullIffShort is the claim; C15_NullIffShortOrNone adds the case it  *)
(* leaves out: null is also returned when there is no eligible output at   *)
(* all, whatever the amount.                                               *)
(***************************************************************************)
C15_NullIffShort ==
  (selectorCalled /\ walletData # None) =>
    (meltSelection = None <=> eligibleSum(Len(eligibleOutputs)) < meltArgs[1].amount)

C15_NullIffShortOrNone ==
  (selectorCalled /\ walletData # None) =>
    (meltSelection = None <=>
       (eligibleOutputs = <<>> \/ eligibleSum(Len(eligibleOutputs)) < meltArgs[1].amount))

\* null although the wallet holds some of the token, and a selection of all it holds
C15_Witness ==
  /\ selectorCalled /\ walletData # None
  /\ meltArgs[1].amount >= 1
  /\ \/ meltSelection = None /\ eligibleOutputs # <<>>
     \/ meltSelection # None /\ eligibleSum(Len(eligibleOutputs)) = meltArgs[1].amount

(***************************************************************************)
(* Vocabulary of the properties of the configuration strings.              *)
(***************************************************************************)
\* the positions of the colons of the string
colons == {i \in DOMAIN config[1] : config[1][i] = ":"}
lastColon == CHOOSE i \in colons : \A j \in colons : j <= i

\* the string lacks its first or its last bracket
lacksBracket == config[1][1] # "[" \/ config[1][Len(config[1])] # "]"

\* the checksum field of a bracketed string with a colon differs from the
\* checksum of the text before that field
wrongChecksum ==
  SubSeq(config[1], lastColon + 1, Len(config[1]) - 1)
    # toHex(getChecksum(bytesOf(SubSeq(config[1], 2, lastColon - 1))))

(***************************************************************************)
(* C16: parsing the configuration string of a token gives the token back:  *)
(* getTokenFromConfigurationString(getConfigurationString(uid, name,       *)
(* symbol)) is {uid, name, symbol} for every uid and symbol without a      *)
(* colon and every name, also names with colons: the last two fields       *)
(* before the checksum are symbol and uid, the fields before them the name.*)
(***************************************************************************)
C16_RoundTrip ==
  (configParsed.called /\ configToken # None /\ ~configEdited) =>
    /\ configParsed.result # None
    /\ configParsed.result[1].uid = configToken[1].uid
    /\ configParsed.result[1].symbol = configToken[1].symbol
    /\ configParsed.result[1].name = configToken[1].name

\* the string of a token whose name has a colon in it was parsed
C16_Witness ==
  /\ configParsed.called /\ configToken # None /\ ~configEdited
  /\ \E i \in DOMAIN configToken[1].name : configToken[1].name[i] = ":"
  /\ Len(configToken[1].name) = MaxNameLen

(***************************************************************************)
(* C17: getTokenFromConfigurationString returns null for every malformed   *)
(* input: a missing or empty string, a string whose first character is not *)
(* '[' or whose last is not ']', one with fewer than 4 fields, one whose    *)
(* last field is not the checksum of the fields before it.  It returns a   *)
(* token only for the configuration string of that token.                  *)
(***************************************************************************)
C17_MalformedIsNull ==
  configParsed.called =>
    /\ (config = None \/ config[1] = <<>>) => configParsed.result = None
    /\ (config # None /\ config[1] # <<>> /\ lacksBracket) => configParsed.result = None
    /\ (config # None /\ Cardinality(colons) < 3) => configParsed.result = None
    /\ (config # None /\ config[1] # <<>> /\ ~lacksBracket /\ colons # {} /\ wrongChecksum) =>
         configParsed.result = None
    /\ configParsed.result # None =>
         config[1] = getConfigurationString(configParsed.result[1].uid, configParsed.result[1].name,
                                            configParsed.result[1].symbol)

\* a string with its brackets and four fields or more was refused for its checksum
C17_Witness ==
  /\ configParsed.called /\ configParsed.result = None
  /\ config # None /\ config[1] # <<>> /\ ~lacksBracket
  /\ Cardinality(colons) >= 3
  /\ configToken # None /\ configEdited

(***************************************************************************)
(* C18: getTokenIndex(tokens, uid) is 0 for the uid of the native token    *)
(* and otherwise the position from 1 of uid in tokens without the native   *)
(* token; 0 is returned for the native token only, and a result k > 0      *)
(* satisfies tokensWithoutNative[k].uid = uid (positions from 1).          *)
(***************************************************************************)
C18_IndexOfToken ==
  indexArgs # None =>
    LET uid == indexArgs[1].uid
        k == indexResult[1]
        tokensWithoutNative == SelectSeq(indexArgs[1].tokens, LAMBDA t : t.uid # <<"00">>)
    IN  /\ uid = <<"00">> => k = 0
        /\ k = 0 => uid = <<"00">>
        /\ k > 0 => k \in DOMAIN tokensWithoutNative /\ tokensWithoutNative[k].uid = uid

\* what holds of getTokenIndex: the claim for the uids that are in the list
\* or native
C18_IndexOfListedToken ==
  (indexArgs # None /\ \/ indexArgs[1].uid = <<"00">>
                       \/ \E i \in DOMAIN indexArgs[1].tokens : indexArgs[1].tokens[i].uid = indexArgs[1].uid) =>
    C18_IndexOfToken

(***************************************************************************)
(* Vocabulary of the properties of the polling delay and of concurrent     *)
(* objects.                                                                *)
(***************************************************************************)
\* an answer of the service that makes the object store an estimation
storesEstimation(x) ==
  /\ x.ok
  /\ x.response.expected_total_time # -1
  /\ x.to = "getJobStatus" => x.response.status \notin {"done", "timeout"}

\* the estimations object o stored, in order
storedEstimations(o) ==
  LET answers == SelectSeq(inputs[o], storesEstimation)
  IN  [i \in DOMAIN answers |-> answers[i].response.expected_total_time]

\* the state of the promise after a sequence of notifications
promiseAfter(notifications) ==
  LET terminal == {i \in DOMAIN notifications : notifications[i].event \in TerminalEvents} IN
  IF terminal = {} THEN [state |-> "pending", value |-> None]
  ELSE LET first == CHOOSE i \in terminal : \A j \in terminal : i <= j
       IN  [state |-> IF notifications[first].event = "success" THEN "resolved" ELSE "rejected",
            value |-> Some(notifications[first].data)]

\* a submission that runs alone: its fields and notifications after the answers ins,
\* with maxTxMiningRetries max
RECURSIVE aloneAfter(_, _)
aloneAfter(ins, max) ==
  IF ins = <<>>
  THEN [estimation |-> None, jobID |-> Null, attempts |-> 1, notifications |-> <<>>]
  ELSE LET s == aloneAfter(SubSeq(ins, 1, Len(ins) - 1), max)
           x == Last(ins)
           notify(event, data) ==
             [s EXCEPT !.notifications = Append(@, [event |-> event, data |-> data])]
       IN  IF ~x.ok THEN notify("unexpected-error", unexpectedError)
           ELSE IF x.to = "submitJob"
           THEN IF x.response.expected_total_time = -1 THEN notify("send-error", noMinersError)
                ELSE [s EXCEPT !.estimation = Some(x.response.expected_total_time),
                               !.jobID = x.response.job_id,
                               !.notifications =
                                  Append(@, [event |-> "job-submitted",
                                             data |-> [estimation |-> x.response.expected_total_time,
                                                       jobID |-> x.response.job_id]])]
           ELSE IF x.response.status = "done"
           THEN [s EXCEPT !.notifications =
                            @ \o <<[event |-> "job-done", data |-> [jobID |-> s.jobID]],
                                   [event |-> "success", data |-> successData(x.response)]>>]
           ELSE IF x.response.status = "timeout"
           THEN IF s.attempts < max THEN [s EXCEPT !.attempts = @ + 1]
                ELSE notify("send-error", timeoutError)
           ELSE IF x.response.expected_total_time = -1 THEN notify("send-error", noMinersError)
           ELSE [s EXCEPT !.estimation = Some(x.response.expected_total_time),
                          !.notifications =
                             Append(@, [event |-> "estimation-updated",
                                        data |-> [jobID |-> s.jobID,
                                                  estimation |-> x.response.expected_total_time]])]

\* object o is as it would be had it run alone against its own answers
asAlone(o) ==
  starts[o] = 1 =>
    LET alone == aloneAfter(inputs[o], maxTxMiningRetries[o]) IN
    /\ emitted[o] = alone.notifications
    /\ jobID[o] = alone.jobID
    /\ estimation[o] = alone.estimation
    /\ countTxMiningAttempts[o] = alone.attempts
    /\ promise[o] = promiseAfter(alone.notifications)

\* the step is an event of object p: a start, a request or an answer
eventOf(p) == starts'[p] # starts[p] \/ requests'[p] # requests[p] \/ inputs'[p] # inputs[p]

(***************************************************************************)
(* C19: every getJobStatus query is sent after a timer of                  *)
(* max(estimation / 2, MIN_POLLING_INTERVAL) seconds, computed from the    *)
(* estimation stored last; no delay is below MIN_POLLING_INTERVAL,         *)
(* whatever estimations the service reports.  Delays are in milliseconds.  *)
(***************************************************************************)
C19_PollDelay ==
  /\ Len(timers[1]) = Len(storedEstimations(1))
  /\ \A i \in DOMAIN timers[1] :
       /\ timers[1][i] = IF storedEstimations(1)[i] * 1000 >= 2 * MIN_POLLING_INTERVAL * 1000
                         THEN (storedEstimations(1)[i] * 1000) \div 2
                         ELSE MIN_POLLING_INTERVAL * 1000
       /\ timers[1][i] >= MIN_POLLING_INTERVAL * 1000
  /\ Len(polls(1)) <= Len(timers[1])
  /\ Len(timers[1]) <= Len(polls(1)) + 1

\* queries were sent after a delay of half the estimation and after the minimum delay
C19_Witness ==
  /\ Len(polls(1)) >= 2
  /\ \E i, j \in DOMAIN timers[1] :
       /\ storedEstimations(1)[i] = 0 /\ timers[1][i] = MIN_POLLING_INTERVAL * 1000
       /\ storedEstimations(1)[j] = 6 /\ timers[1][j] = 3000

(***************************************************************************)
(* C20: SendTransaction objects in flight together do not interfere: an    *)
(* event of one object leaves jobID, estimation, the attempt counter, the  *)
(* promise and the notifications of the other unchanged, and under every   *)
(* interleaving each object emits the notifications it would emit alone    *)
(* against the same answers.                                               *)
(***************************************************************************)
C20_NoInterference ==
  /\ [](\A o \in Objects : asAlone(o))
  /\ [][\A o \in Objects, p \in Objects :
          (p # o /\ eventOf(p) /\ ~eventOf(o)) =>
            /\ jobID'[o] = jobID[o]
            /\ estimation'[o] = estimation[o]
            /\ countTxMiningAttempts'[o] = countTxMiningAttempts[o]
            /\ promise'[o] = promise[o]
            /\ emitted'[o] = emitted[o]]_vars

\* both objects ran to their ends, with different jobs and different outcomes
C20_Witness ==
  /\ promise[1].state = "rejected"
  /\ promise[2].state = "resolved"
  /\ jobID[1] # jobID[2] /\ jobID[1] # Null /\ jobID[2] # Null
  /\ countTxMiningAttempts[2] >= 2
  /\ Len(emitted[1]) >= 3


(***************************************************************************)
(* Vocabulary of the properties of the integer codec and of the stack.    *)
(***************************************************************************)
\* a <= b for two magnitudes in decimal digits without leading zeros
atMost(a, b) ==
  \/ Len(a) < Len(b)
  \/ /\ Len(a) = Len(b)
     /\ \/ a = b
        \/ \E i \in DOMAIN a : a[i] < b[i] /\ \A j \in 1..(i - 1) : a[j] = b[j]

\* the largest unsigned value, the largest signed value and the magnitude of the
\* smallest signed value of each width
unsignedMax ==
  [w \in UnsignedWidths |->
     CASE w = 1 -> <<2, 5, 5>> [] w = 2 -> <<6, 5, 5, 3, 5>> [] w = 4 -> <<4, 2, 9, 4, 9, 6, 7, 2, 9, 5>>]
signedMax ==
  [w \in SignedWidths |->
     CASE w = 1 -> <<1, 2, 7>> [] w = 2 -> <<3, 2, 7, 6, 7>> [] w = 4 -> <<2, 1, 4, 7, 4, 8, 3, 6, 4, 7>>
       [] w = 8 -> <<9, 2, 2, 3, 3, 7, 2, 0, 3, 6, 8, 5, 4, 7, 7, 5, 8, 0, 7>>]
signedMin ==
  [w \in SignedWidths |->
     CASE w = 1 -> <<1, 2, 8>> [] w = 2 -> <<3, 2, 7, 6, 8>> [] w = 4 -> <<2, 1, 4, 7, 4, 8, 3, 6, 4, 8>>
       [] w = 8 -> <<9, 2, 2, 3, 3, 7, 2, 0, 3, 6, 8, 5, 4, 7, 7, 5, 8, 0, 8>>]

\* the number of the last codec test is representable in its width
representable(args) ==
  IF args.signed
  THEN atMost(args.n.digits, IF args.n.neg THEN signedMin[args.width] ELSE signedMax[args.width])
  ELSE ~args.n.neg /\ atMost(args.n.digits, unsignedMax[args.width])

\* C21: for every width of 1, 2 and 4 bytes and every number representable
\* unsigned in that width, unpackToInt(width, false, intToBytes(n, width)) gives
\* back n; for every width of 1, 2, 4 and 8 bytes and every number representable
\* signed in that width, numbers beyond 2^32 in 8 bytes included,
\* unpackToInt(width, true, signedIntToBytes(n, width)) gives back n.
C21_RoundTrip ==
  (codecArgs # None /\ representable(codecArgs[1])) =>
    /\ codecBytes.ok
    /\ Len(codecBytes.bytes) = codecArgs[1].width
    /\ codecValue = Some(codecArgs[1].n)

\* 2^33 went through 8 signed bytes, as in the test
C21_Witness ==
  /\ codecArgs = Some([n |-> number(FALSE, <<8, 5, 8, 9, 9, 3, 4, 5, 9, 2>>), width |-> 8, signed |-> TRUE])
  /\ codecBytes = [ok |-> TRUE, bytes |-> <<0, 0, 0, 2, 0, 0, 0, 0>>]
  /\ codecValue = Some(codecArgs[1].n)

\* C22: pushDataToStack(stack, data) appends and alters no entry the stack had:
\* for data of at most 75 bytes it appends exactly 2 entries, one byte holding
\* the length and then data; for data of more than 75 and at most 255 bytes
\* exactly 3 entries, the push-data-1 opcode, one byte holding the length and
\* then data.
C22_PushAppends ==
  pushedData # None =>
    LET data == pushedData[1]
        n == Len(stackBefore)
    IN  /\ SubSeq(stack, 1, n) = stackBefore
        /\ Len(data) <= 75 =>
             /\ Len(stack) = n + 2
             /\ stack[n + 1] = <<Len(data)>>
             /\ stack[n + 2] = data
        /\ (75 < Len(data) /\ Len(data) <= 255) =>
             /\ Len(stack) = n + 3
             /\ stack[n + 1] = OP_PUSHDATA1
             /\ stack[n + 2] = <<Len(data)>>
             /\ stack[n + 3] = data

\* 100 bytes were pushed on the stack that held a push of 5 bytes
C22_Witness ==
  /\ stackBefore = <<<<5>>, [i \in 1..5 |-> 0]>>
  /\ pushedData = Some([i \in 1..100 |-> 0])
  /\ Len(stack) = 5
  /\ stack[3] = OP_PUSHDATA1

(***************************************************************************)
(* Vocabulary of the properties of the token registry.                    *)
(***************************************************************************)
\* the entries of a list with the uid, and with another uid, in their order
entriesOf(tokens, uid) == SelectSeq(tokens, LAMBDA token : token.uid = uid)
entriesBeside(tokens, uid) == SelectSeq(tokens, LAMBDA token : token.uid # uid)

\* C24: when addToken(uid, ...) is only performed after validateTokenToAddByUid(uid)
\* reported success, the stored list holds at most one entry per uid after any
\* sequence of addToken, editToken and unregisterToken; editToken(uid, ...) leaves
\* exactly one entry for uid, with the new name and symbol, unregisterToken(uid)
\* leaves none, and both leave the entries of every other uid unchanged and in
\* the same relative order.
C24_OneEntryPerUid ==
  /\ \A uid \in RegistryUids : Len(entriesOf(getTokens, uid)) <= 1
  /\ registryOp # None =>
       LET call == registryOp[1] IN
       /\ call.op = "editToken" =>
            /\ entriesOf(getTokens, call.uid) =
                 <<[uid |-> call.uid, name |-> call.name, symbol |-> call.symbol]>>
            /\ entriesBeside(getTokens, call.uid) = entriesBeside(registryBefore, call.uid)
       /\ call.op = "unregisterToken" =>
            /\ entriesOf(getTokens, call.uid) = <<>>
            /\ entriesBeside(getTokens, call.uid) = entriesBeside(registryBefore, call.uid)

\* a token between two others was edited: it moved to the end with its new
\* name and symbol, the two others stayed in their order
C24_Witness ==
  /\ registryOp # None
  /\ registryOp[1].op = "editToken"
  /\ Len(registryBefore) = 3
  /\ registryBefore[2].uid = registryOp[1].uid
  /\ registryBefore[2].name # registryOp[1].name
  /\ Len(getTokens) = 3
  /\ getTokens[1] = registryBefore[1]
  /\ getTokens[2] = registryBefore[3]

\* C23: when every submitJob and getJobStatus request is answered or fails, every
\* poll timer fires and the service does not answer for ever with another status
\* than 'done' and 'timeout', a started submission comes to emit a terminal
\* notification; timeouts one after the other do not keep it running.
C23_Terminates == (starts[1] = 1) ~> (terminalAt(1) # {})

\* the service answered 'timeout' until the retries were used up, and once with
\* another status: the object has emitted its terminal notification
C23_Witness ==
  /\ maxTxMiningRetries[1] = 3
  /\ countTxMiningAttempts[1] = 3
  /\ Count(inputs[1], LAMBDA x : x.to = "getJobStatus" /\ x.ok /\ x.response.status = "timeout") >= 3
  /\ Count(inputs[1], LAMBDA x : x.to = "getJobStatus" /\ x.ok /\ x.response.status = "mining") >= 1
  /\ terminalAt(1) # {}
  /\ emitted[1][Len(emitted[1])].event = "send-error"

====
